---------------------------- MODULE Spec2Model ----------------------------
(***************************************************************************)
(* termail: the Local Store (internal/store/sqlite) and the Sync Engine    *)
(* (internal/app/sync.go) as a state machine.                              *)
(*                                                                         *)
(* The Store is the SQLite database: the tables emails, email_labels,      *)
(* labels, sync_state, accounts and the FTS shadow table emails_fts.       *)
(* A Store operation is an operator from a database value to a result      *)
(* [ok, db]; a multi-statement operation is computed statement by          *)
(* statement inside its transaction and rolled back when a statement       *)
(* fails.  The Sync Engine is modelled one provider call or Store write    *)
(* per step.                                                               *)
(***************************************************************************)
EXTENDS Integers, Sequences, FiniteSets, TLC

(***************************************************************************)
(* Bounds of the model.                                                    *)
(***************************************************************************)
MaxEvents  == 2     \* events in one History answer
MaxPageLen == 2     \* messages in one ListMessages answer
MaxPages   == 2     \* pages with a non-empty next-page token in one pass
MaxCount   == 2     \* largest count given to InitialSync by a direct caller
MaxCursor  == 2     \* largest history id the provider hands out
MaxTime    == 1     \* values of time.Now().Unix()
ReplayLen  == 4     \* events in a redelivered history batch
MaxLimit   == 1     \* largest Limit and Offset given to a list query
MaxWrites  == 2     \* writes that commit while one GetEmail runs

(***************************************************************************)
(* Program constants.                                                      *)
(***************************************************************************)
batchSize    == 100   \* sync.go:44
DefaultCount == 500   \* sync.go:100

AccountID == "a1"     \* the account the SyncService was built for
MsgIds    == {"m1", "m2"}
Subjects  == {"s1", "s2"}

Min(a, b) == IF a < b THEN a ELSE b
Max(a, b) == IF a > b THEN a ELSE b

SeqToSet(s) == {s[i] : i \in 1..Len(s)}

(***************************************************************************)
(* domain.Email, reduced: subject stands for the text columns but the      *)
(* body (subject, sender, recipients, in-reply-to), bcc stands for BCC and *)
(* Attachments, the fields the Store has no column for.                    *)
(*                                                                         *)
(* date is a time.Time: the instant as seconds and nanoseconds, and the    *)
(* offset of its zone (same unit as sec).  A body is a text of `chars`     *)
(* characters of `width` bytes each.                                       *)
(***************************************************************************)
Text(tag, chars, width) == [tag |-> tag, chars |-> chars, width |-> width]
NoText == Text("", 0, 1)

Email(id, thread, subject, sec, nsec, labels, isRead, isStarred) ==
    [id |-> id, threadID |-> thread, subject |-> subject, body |-> NoText,
     date |-> [sec |-> sec, nsec |-> nsec, zone |-> 0], labels |-> labels,
     isRead |-> isRead, isStarred |-> isStarred, bcc |-> <<>>]

containsLabel(labels, label) == \E i \in 1..Len(labels) : labels[i] = label

\* mapMessage: the read and starred flags are derived from the label ids.
mapMessage(id, thread, subject, sec, labelIds) ==
    Email(id, thread, subject, sec, 0, labelIds,
          ~containsLabel(labelIds, "UNREAD"), containsLabel(labelIds, "STARRED"))

\* time.Time.Format(time.RFC3339): the wall clock of the time's zone in
\* whole seconds (the fraction is dropped) followed by the zone offset.
FormatRFC3339(t) == [local |-> t.sec + t.zone, zone |-> t.zone]
\* time.Parse(time.RFC3339, s)
ParseRFC3339(s) == [sec |-> s.local - s.zone, nsec |-> 0, zone |-> s.zone]

(***************************************************************************)
(* The database.                                                           *)
(*   accounts     : set of account ids                                     *)
(*   emails       : set of rows, primary key id                            *)
(*   email_labels : set of <<email_id, label_id>> (the primary key)        *)
(*   labels       : label id -> row                                        *)
(*   sync_state   : account id -> row                                      *)
(*   emails_fts   : set of <<message id, indexed text>>                    *)
(***************************************************************************)
EmptyFn == [x \in {} |-> 0]

schema ==
    [accounts |-> {AccountID}, emails |-> {}, email_labels |-> {},
     labels |-> EmptyFn, sync_state |-> EmptyFn, emails_fts |-> {}]

Put(f, k, v) == [x \in (DOMAIN f) \cup {k} |-> IF x = k THEN v ELSE f[x]]
Drop(f, k)   == [x \in (DOMAIN f) \ {k} |-> f[x]]

\* Triggers emails_ai, emails_ad, emails_au of the FTS schema.
emails_ai(fts, id, new) == fts \cup {<<id, new.subject, new.body_text>>}
emails_ad(fts, id, old) == fts \ {<<id, old.subject, old.body_text>>}
emails_auInsertOnly(fts, id, old, new) == emails_ai(fts, id, new)
emails_au(fts, id, old, new) == emails_ai(emails_ad(fts, id, old), id, new)

\* defer tx.Rollback(): a transaction that did not commit leaves the
\* database as it was at BeginTx.
RollbackKeepsPartial(before, partial) == partial
Rollback(before, partial) == before

\* The rows of emails with a given id, and the ids stored.
RowsOf(d, id) == {r \in d.emails : r.id = id}
StoredIds(d)  == {r.id : r \in d.emails}
RowOf(d, id)  == CHOOSE r \in d.emails : r.id = id

NewRow(email, accountID) ==
    [id |-> email.id, account_id |-> accountID, thread_id |-> email.threadID,
     subject |-> email.subject, body_text |-> email.body,
     date |-> FormatRFC3339(email.date),
     is_read |-> email.isRead, is_starred |-> email.isStarred]

\* INSERT INTO emails ... ON CONFLICT(id) DO UPDATE SET ...: the row with
\* the id, when there is one, is updated in place (trigger emails_au),
\* otherwise the row is inserted (trigger emails_ai).
UpsertRowNoConflict(d, email, accountID) ==
    LET new == NewRow(email, accountID)
    IN [d EXCEPT !.emails = @ \cup {new},
                 !.emails_fts = emails_ai(@, email.id, new)]
UpsertRow(d, email, accountID) ==
    LET new == NewRow(email, accountID)
    IN IF email.id \in StoredIds(d)
       THEN [d EXCEPT !.emails = (@ \ RowsOf(d, email.id)) \cup {new},
                      !.emails_fts = emails_au(@, email.id, RowOf(d, email.id), new)]
       ELSE [d EXCEPT !.emails = @ \cup {new},
                      !.emails_fts = emails_ai(@, email.id, new)]

\* DELETE FROM email_labels WHERE email_id = ?
DeleteLabelRowsOfNone(d, emailID) == d
DeleteLabelRows(d, emailID) ==
    [d EXCEPT !.email_labels = {r \in @ : r[1] # emailID}]

\* The loop of INSERT INTO email_labels: statement k fails on an injected
\* fault, on the primary key (email_id, label_id) or on the foreign key to
\* emails(id); the statements before it have taken effect in the
\* transaction.
RECURSIVE InsertLabelRows(_, _, _, _, _)
InsertLabelRows(d, emailID, labelIDs, k, faultAt) ==
    IF k > Len(labelIDs) THEN [ok |-> TRUE, db |-> d]
    ELSE IF \/ faultAt = k
            \/ <<emailID, labelIDs[k]>> \in d.email_labels
            \/ emailID \notin StoredIds(d)
         THEN [ok |-> FALSE, db |-> d]
         ELSE InsertLabelRows(
                  [d EXCEPT !.email_labels = @ \cup {<<emailID, labelIDs[k]>>}],
                  emailID, labelIDs, k + 1, faultAt)

\* Number of statements of the two transactions (the last one is Commit).
UpsertEmailSteps(email) == Len(email.labels) + 3
SetEmailLabelsSteps(labelIDs) == Len(labelIDs) + 2

\* DB.UpsertEmail.  fault = 0: no I/O fault; fault = k: statement k fails
\* (1 the row upsert, 2 the DELETE, 2+i the i-th INSERT, last the Commit).
UpsertEmail(d, email, accountID, fault) ==
    LET t1  == UpsertRow(d, email, accountID)
        t2  == DeleteLabelRows(t1, email.id)
        ins == InsertLabelRows(t2, email.id, email.labels, 1, fault - 2)
    IN IF fault = 1 \/ accountID \notin d.accounts
       THEN [ok |-> FALSE, db |-> Rollback(d, d)]
       ELSE IF fault = 2 THEN [ok |-> FALSE, db |-> Rollback(d, t1)]
       ELSE IF ~ins.ok THEN [ok |-> FALSE, db |-> Rollback(d, ins.db)]
       ELSE IF fault = UpsertEmailSteps(email)
            THEN [ok |-> FALSE, db |-> Rollback(d, ins.db)]
            ELSE [ok |-> TRUE, db |-> ins.db]

\* DB.SetEmailLabels.  fault = k: statement k fails (1 the DELETE, 1+i the
\* i-th INSERT, last the Commit).
SetEmailLabels(d, emailID, labelIDs, fault) ==
    LET t1  == DeleteLabelRows(d, emailID)
        ins == InsertLabelRows(t1, emailID, labelIDs, 1, fault - 1)
    IN IF fault = 1 THEN [ok |-> FALSE, db |-> Rollback(d, d)]
       ELSE IF ~ins.ok THEN [ok |-> FALSE, db |-> Rollback(d, ins.db)]
       ELSE IF fault = SetEmailLabelsSteps(labelIDs)
            THEN [ok |-> FALSE, db |-> Rollback(d, ins.db)]
            ELSE [ok |-> TRUE, db |-> ins.db]

\* DB.DeleteEmail: one statement; email_labels rows go by ON DELETE CASCADE
\* and the index entry by the trigger emails_ad.  Deleting an id that is
\* not stored is no error.
DeleteEmailRowOnly(d, id, fault) ==
    IF fault = 1 THEN [ok |-> FALSE, db |-> d]
    ELSE [ok |-> TRUE, db |-> [d EXCEPT !.emails = @ \ RowsOf(d, id)]]
DeleteEmail(d, id, fault) ==
    IF fault = 1 THEN [ok |-> FALSE, db |-> d]
    ELSE IF id \notin StoredIds(d) THEN [ok |-> TRUE, db |-> d]
    ELSE [ok |-> TRUE,
          db |-> [d EXCEPT !.emails = @ \ RowsOf(d, id),
                           !.email_labels = {r \in @ : r[1] # id},
                           !.emails_fts = emails_ad(@, id, RowOf(d, id))]]

\* DB.UpsertLabel: ON CONFLICT(id) updates name, type and color only (name
\* stands for the three).  An id that is stored takes the DO UPDATE branch:
\* no row is inserted, account_id is not assigned and the foreign key to
\* accounts(id) is not checked.
UpsertLabelInsertOnly(d, label, fault) ==
    IF fault = 1 \/ label.accountID \notin d.accounts \/ label.id \in DOMAIN d.labels
    THEN [ok |-> FALSE, db |-> d]
    ELSE [ok |-> TRUE,
          db |-> [d EXCEPT !.labels =
                     Put(@, label.id, [account_id |-> label.accountID,
                                       name |-> label.name])]]
UpsertLabel(d, label, fault) ==
    IF fault = 1 THEN [ok |-> FALSE, db |-> d]
    ELSE IF label.id \in DOMAIN d.labels
         THEN [ok |-> TRUE,
               db |-> [d EXCEPT !.labels[label.id].name = label.name]]
         ELSE IF label.accountID \notin d.accounts THEN [ok |-> FALSE, db |-> d]
         ELSE [ok |-> TRUE,
               db |-> [d EXCEPT !.labels =
                          Put(@, label.id, [account_id |-> label.accountID,
                                            name |-> label.name])]]

\* DB.ListLabels: the labels of the account ORDER BY name, the possible
\* results (labels with equal names come in any order).  LabelNames lists
\* the names in the order of the column's collation.
LabelNames == <<"Inbox", "Unread">>
NameRank(name) == CHOOSE i \in 1..Len(LabelNames) : LabelNames[i] = name
ListLabelsOf(d, accountID) ==
    LET ids == {l \in DOMAIN d.labels : d.labels[l].account_id = accountID}
    IN {[i \in 1..Len(s) |-> [id |-> s[i], accountID |-> accountID,
                               name |-> d.labels[s[i]].name]]
        : s \in {q \in [1..Cardinality(ids) -> ids] :
                   /\ \A i, j \in 1..Cardinality(ids) : i # j => q[i] # q[j]
                   /\ \A i, j \in 1..Cardinality(ids) :
                        i < j => NameRank(d.labels[q[i]].name)
                                   <= NameRank(d.labels[q[j]].name)}}

\* DB.SetSyncState: upsert by account id.
SetSyncStateFirstOnly(d, state, fault) ==
    IF fault = 1 \/ state.accountID \notin d.accounts THEN [ok |-> FALSE, db |-> d]
    ELSE IF state.accountID \in DOMAIN d.sync_state THEN [ok |-> TRUE, db |-> d]
    ELSE [ok |-> TRUE,
          db |-> [d EXCEPT !.sync_state =
                     Put(@, state.accountID, [history_id |-> state.historyID,
                                              last_sync |-> state.lastSync])]]
SetSyncState(d, state, fault) ==
    IF fault = 1 \/ state.accountID \notin d.accounts THEN [ok |-> FALSE, db |-> d]
    ELSE [ok |-> TRUE,
          db |-> [d EXCEPT !.sync_state =
                     Put(@, state.accountID, [history_id |-> state.historyID,
                                              last_sync |-> state.lastSync])]]

\* DB.GetSyncState: a zero-valued state when there is no row.
GetSyncStateOfAnyRow(d, accountID) ==
    IF DOMAIN d.sync_state = {}
    THEN [accountID |-> accountID, historyID |-> 0, lastSync |-> 0]
    ELSE LET a == CHOOSE x \in DOMAIN d.sync_state : TRUE
         IN [accountID |-> accountID,
             historyID |-> d.sync_state[a].history_id,
             lastSync  |-> d.sync_state[a].last_sync]
GetSyncState(d, accountID) ==
    IF accountID \in DOMAIN d.sync_state
    THEN [accountID |-> accountID,
          historyID |-> d.sync_state[accountID].history_id,
          lastSync  |-> d.sync_state[accountID].last_sync]
    ELSE [accountID |-> accountID, historyID |-> 0, lastSync |-> 0]

\* SELECT label_id FROM email_labels WHERE email_id = ?
LabelsOf(d, id) == {x[2] : x \in {y \in d.email_labels : y[1] = id}}

\* DB.GetEmail: the row and the label rows of the id.  labels is given as
\* a set (the rows come in no order the caller chose).
GetEmail(d, id) ==
    IF id \notin StoredIds(d) THEN [found |-> FALSE]
    ELSE LET r == RowOf(d, id)
         IN [found |-> TRUE, id |-> id, threadID |-> r.thread_id,
             subject |-> r.subject, body |-> r.body_text,
             date |-> ParseRFC3339(r.date),
             labels |-> {x[2] : x \in {y \in d.email_labels : y[1] = id}},
             isRead |-> r.is_read, isStarred |-> r.is_starred, bcc |-> <<>>]


(***************************************************************************)
(* The rest of the Store: accounts, read flags and the query operations.   *)
(***************************************************************************)
Accounts == {"a1", "a2"}
Threads  == {"t1", "t2"}

\* DB.CreateAccount: a plain INSERT, the primary key rejects a second row.
CreateAccount(d, id, fault) ==
    IF fault = 1 \/ id \in d.accounts THEN [ok |-> FALSE, db |-> d]
    ELSE [ok |-> TRUE, db |-> [d EXCEPT !.accounts = @ \cup {id}]]

\* DB.DeleteAccount: the rows of emails, labels and sync_state that
\* reference the account go by ON DELETE CASCADE, the label rows of the
\* deleted messages likewise, and the trigger emails_ad runs for every
\* deleted message.
DeleteAccountRowOnly(d, id, fault) ==
    IF fault = 1 THEN [ok |-> FALSE, db |-> d]
    ELSE [ok |-> TRUE, db |-> [d EXCEPT !.accounts = @ \ {id}]]
DeleteAccount(d, id, fault) ==
    IF fault = 1 THEN [ok |-> FALSE, db |-> d]
    ELSE LET gone == {r \in d.emails : r.account_id = id}
         IN [ok |-> TRUE,
             db |-> [d EXCEPT
                       !.accounts = @ \ {id},
                       !.emails = @ \ gone,
                       !.email_labels = {x \in @ : x[1] \notin {r.id : r \in gone}},
                       !.emails_fts = @ \ {<<r.id, r.subject, r.body_text>> : r \in gone},
                       !.labels = [l \in {k \in DOMAIN @ : @[k].account_id # id} |-> @[l]],
                       !.sync_state = [a \in (DOMAIN @) \ {id} |-> @[a]]]]

\* UPDATE emails SET is_read = ? WHERE ...: every row of hit is updated and
\* the trigger emails_au runs for it.
SetRead(d, hit, read) ==
    LET new(r) == [r EXCEPT !.is_read = read]
    IN [d EXCEPT
          !.emails = (@ \ hit) \cup {new(r) : r \in hit},
          !.emails_fts = (@ \ {<<r.id, r.subject, r.body_text>> : r \in hit})
                           \cup {<<r.id, new(r).subject, new(r).body_text>> : r \in hit}]

\* DB.SetEmailRead
SetEmailReadNoWrite(d, emailID, read, fault) ==
    IF fault = 1 THEN [ok |-> FALSE, db |-> d]
    ELSE [ok |-> TRUE, db |-> d]
SetEmailRead(d, emailID, read, fault) ==
    IF fault = 1 THEN [ok |-> FALSE, db |-> d]
    ELSE [ok |-> TRUE, db |-> SetRead(d, RowsOf(d, emailID), read)]

\* DB.SetThreadRead: WHERE thread_id = ?, whatever the account.
SetThreadRead(d, threadID, read, fault) ==
    IF fault = 1 THEN [ok |-> FALSE, db |-> d]
    ELSE [ok |-> TRUE,
          db |-> SetRead(d, {r \in d.emails : r.thread_id = threadID}, read)]

\* The order of two date columns: SQLite compares the RFC3339 strings as
\* TEXT, byte by byte.  The wall clock comes first; of two strings with the
\* same wall clock the one with a "+hh:mm" suffix is below the one with a
\* "-hh:mm" suffix, which is below the one ending in "Z".
SuffixRank(zone) == IF zone > 0 THEN 0 ELSE IF zone < 0 THEN 1 ELSE 2
SuffixLess(y, z) ==
    \/ SuffixRank(y) < SuffixRank(z)
    \/ SuffixRank(y) = SuffixRank(z) /\ (IF y > 0 THEN y < z ELSE z < y)
DateLess(a, b) ==
    \/ a.local < b.local
    \/ a.local = b.local /\ SuffixLess(a.zone, b.zone)

\* The orders in which a query may return rows under ORDER BY date ASC and
\* ORDER BY date DESC: rows with equal dates come in any order.
Arrangements(rows) ==
    {s \in [1..Cardinality(rows) -> rows] :
        \A i, j \in 1..Cardinality(rows) : i # j => s[i] # s[j]}
OrderByDateAsc(rows) ==
    {s \in Arrangements(rows) :
        \A i, j \in 1..Len(s) : i < j => ~DateLess(s[j].date, s[i].date)}
OrderByDateDesc(rows) ==
    {s \in Arrangements(rows) :
        \A i, j \in 1..Len(s) : i < j => ~DateLess(s[i].date, s[j].date)}

\* LIMIT ? and OFFSET ? as the list queries append them.
Slice(s, limit, offset) ==
    LET from == IF offset > 0 THEN offset ELSE 0
        rest == IF from >= Len(s) THEN <<>> ELSE SubSeq(s, from + 1, Len(s))
    IN IF limit > 0 /\ limit < Len(rest) THEN SubSeq(rest, 1, limit) ELSE rest

\* The domain.Email the query operations scan from a row (no labels).
ScanEmail(r) ==
    [id |-> r.id, threadID |-> r.thread_id, subject |-> r.subject,
     body |-> r.body_text, date |-> ParseRFC3339(r.date), labels |-> <<>>,
     isRead |-> r.is_read, isStarred |-> r.is_starred, bcc |-> <<>>]

\* snippet[:100] when len(snippet) > 100: the length and the cut are in
\* bytes.
SnippetLen == 100
Snippet(body) ==
    IF body.chars * body.width > SnippetLen
    THEN [body EXCEPT !.chars = SnippetLen \div body.width]
    ELSE body

\* DB.GetThread: the possible results (rows with equal dates come in any
\* order).
GetThreadOfAnyAccount(d, threadID, accountID) ==
    LET rows == {r \in d.emails : r.thread_id = threadID}
    IN IF rows = {} THEN {[found |-> FALSE]}
       ELSE {[found |-> TRUE, id |-> threadID, subject |-> s[1].subject,
              messages |-> [i \in 1..Len(s) |-> ScanEmail(s[i])],
              snippet |-> Snippet(s[Len(s)].body_text),
              lastDate |-> ParseRFC3339(s[Len(s)].date), totalCount |-> 0,
              hasUnread |-> FALSE]
             : s \in OrderByDateAsc(rows)}
GetThread(d, threadID, accountID) ==
    LET rows == {r \in d.emails : r.thread_id = threadID /\ r.account_id = accountID}
    IN IF rows = {} THEN {[found |-> FALSE]}
       ELSE {LET messages == [i \in 1..Len(s) |-> ScanEmail(s[i])]
                 first == messages[1]
                 last  == messages[Len(messages)]
             IN [found |-> TRUE, id |-> threadID, subject |-> first.subject,
                 messages |-> messages, snippet |-> Snippet(last.body),
                 lastDate |-> last.date, totalCount |-> 0, hasUnread |-> FALSE]
             : s \in OrderByDateAsc(rows)}

\* Thread.IsUnread
IsUnread(t) ==
    IF Len(t.messages) = 0 THEN t.hasUnread
    ELSE \E i \in 1..Len(t.messages) : ~t.messages[i].isRead

\* The rows ListEmails and ListThreads select from: the messages of the
\* account, joined with their label rows when a label is given.
Selected(d, accountID, labelID) ==
    {e \in d.emails :
        /\ e.account_id = accountID
        /\ labelID # "" => <<e.id, labelID>> \in d.email_labels}

\* MAX(e.date) of a group: the greatest string.
MaxDate(rows) ==
    (CHOOSE r \in rows : \A q \in rows : ~DateLess(r.date, q.date)).date

\* The rows of one group of ListThreads.  The three scalar subqueries
\* range over all rows of emails with the thread id, ordered by date with
\* LIMIT 1; the aggregates MAX, COUNT and MIN range over the group.
ThreadRows(d, thread, group) ==
    LET all == {r \in d.emails : r.thread_id = thread}
    IN {[thread_id |-> thread,
         first_subject |-> asc[1].subject,
         date |-> MaxDate(group),
         last_body |-> desc[1].body_text,
         msg_count |-> Cardinality(group),
         all_read |-> \A r \in group : r.is_read]
        : asc \in OrderByDateAsc(all), desc \in OrderByDateDesc(all)}

\* The domain.Thread scanned from a row of ListThreads.
ScanThreadAllRead(row) ==
    [found |-> TRUE, id |-> row.thread_id, subject |-> row.first_subject,
     messages |-> <<>>, snippet |-> Snippet(row.last_body),
     lastDate |-> ParseRFC3339(row.date), totalCount |-> row.msg_count,
     hasUnread |-> row.all_read]
ScanThread(row) ==
    [found |-> TRUE, id |-> row.thread_id, subject |-> row.first_subject,
     messages |-> <<>>, snippet |-> Snippet(row.last_body),
     lastDate |-> ParseRFC3339(row.date), totalCount |-> row.msg_count,
     hasUnread |-> ~row.all_read]

\* DB.ListThreads: the possible results.  OFFSET without LIMIT is not a
\* statement SQLite accepts.
ListThreads(d, opts) ==
    LET sel     == Selected(d, opts.accountID, opts.labelID)
        threads == {e.thread_id : e \in sel}
        group(t) == {e \in sel : e.thread_id = t}
        picks   == {f \in [threads -> UNION {ThreadRows(d, t, group(t)) : t \in threads}] :
                      \A t \in threads : f[t] \in ThreadRows(d, t, group(t))}
    IN IF opts.offset > 0 /\ opts.limit <= 0 THEN {[ok |-> FALSE, threads |-> <<>>]}
       ELSE {[ok |-> TRUE,
              threads |-> LET page == Slice(s, opts.limit, opts.offset)
                          IN [i \in 1..Len(page) |-> ScanThread(page[i])]]
             : s \in UNION {OrderByDateDesc({f[t] : t \in threads}) : f \in picks}}

\* DB.ListEmails: the possible results.  The query selects no body and no
\* labels.
ListEmails(d, opts) ==
    IF opts.offset > 0 /\ opts.limit <= 0 THEN {[ok |-> FALSE, emails |-> <<>>]}
    ELSE {[ok |-> TRUE,
           emails |-> LET page == Slice(s, opts.limit, opts.offset)
                      IN [i \in 1..Len(page) |->
                            [ScanEmail(page[i]) EXCEPT !.body = NoText]]]
          : s \in OrderByDateDesc(Selected(d, opts.accountID, opts.labelID))}

\* emails_fts MATCH ?: the queries FTS5 accepts without quoting are words;
\* a word matches an entry when it is one of the entry's tokens (a subject
\* and a body are one token each here).  Any other string is a syntax
\* error of the statement.
Words   == {"s1", "s2", "b1", "b3", "zz"}
Queries == Words \cup {"a@b"}
Match(entry, query) == query = entry[2] \/ query = entry[3].tag

\* DB.SearchEmails: the messages of the account joined with their index
\* entries that match, as a set (they come ordered by rank).
SearchEmails(d, query, accountID) ==
    IF query \notin Words THEN [ok |-> FALSE, emails |-> {}]
    ELSE [ok |-> TRUE,
          emails |-> {ScanEmail(e) : e \in
                        {r \in d.emails :
                           /\ r.account_id = accountID
                           /\ \E entry \in d.emails_fts :
                                entry[1] = r.id /\ Match(entry, query)}}]

(***************************************************************************)
(* The provider (provider.EmailProvider), an external collaborator: every  *)
(* call either fails or answers with any value of its result type.         *)
(***************************************************************************)
HistoryEventTypes ==
    {"HistoryMessageAdded", "HistoryMessageDeleted",
     "HistoryLabelsAdded", "HistoryLabelsRemoved"}
HistoryEvents == [type : HistoryEventTypes, messageID : MsgIds]

SeqsUpTo(S, n) == UNION {[1..k -> S] : k \in 0..n}

\* Messages as Provider.GetMessage and Provider.ListMessages build them.
ProviderEmails(id) ==
    {mapMessage(id, "t1", "s1", 1, <<"INBOX", "UNREAD">>),
     mapMessage(id, "t1", "s2", 2, <<>>)}
AllProviderEmails == UNION {ProviderEmails(id) : id \in MsgIds}

\* Answers of Provider.ListLabels (domain.Label, reduced to id and name).
ProviderLabels ==
    {<<>>,
     <<[id |-> "INBOX", name |-> "Inbox"], [id |-> "UNREAD", name |-> "Unread"]>>}

\* Arguments of direct Store calls (the CLI, the TUI and the tests use the
\* Store's API as the Sync Engine does).
ApiEmails ==
    AllProviderEmails \cup
    {Email(id, "t1", "s1", 1, 0, <<"INBOX", "INBOX">>, FALSE, FALSE) : id \in MsgIds} \cup
    {[Email(id, "t1", "s2", 2, 1, <<>>, TRUE, FALSE) EXCEPT !.bcc = <<"b1">>] :
        id \in MsgIds}
ApiLabelLists == {<<>>, <<"UNREAD", "INBOX">>, <<"INBOX", "INBOX">>}

\* Arguments of the Store calls of SpecStore: messages of two threads,
\* with dates in two zones (the second and the third date are the instants
\* 2 and 1 and read "2Z" and "3+02:00"), with a short body, a body of 101
\* one-byte characters and a body of 51 two-byte characters.
Profiles ==
    {[thread |-> "t1", sec |-> 1, zone |-> 0, subject |-> "s1", body |-> Text("b1", 3, 1)],
     [thread |-> "t1", sec |-> 2, zone |-> 0, subject |-> "s2", body |-> Text("b2", 101, 1)],
     [thread |-> "t1", sec |-> 1, zone |-> 2, subject |-> "s2", body |-> Text("b3", 51, 2)],
     [thread |-> "t2", sec |-> 2, zone |-> 0, subject |-> "s1", body |-> Text("b1", 3, 1)]}
StoreLabelLists == {<<>>, <<"INBOX">>}
StoreEmails ==
    {[Email(id, p.thread, p.subject, p.sec, 0, labels, read, FALSE)
        EXCEPT !.body = p.body, !.date.zone = p.zone] :
       id \in MsgIds, p \in Profiles, labels \in StoreLabelLists, read \in BOOLEAN}
ListOptions ==
    [accountID : Accounts, labelID : {"", "INBOX"},
     limit : 0..MaxLimit, offset : 0..MaxLimit]
Times == 1..MaxTime

\* Arguments of the Store calls of SpecAccounts.
LabelIds    == {"INBOX", "UNREAD"}
StoreLabels == [id : LabelIds, name : SeqToSet(LabelNames), accountID : Accounts]
StoreSyncStates == [accountID : Accounts, historyID : 0..MaxCursor, lastSync : Times]
OwnedEmails ==
    {Email(id, "t1", "s1", 1, 0, labels, FALSE, FALSE) :
       id \in MsgIds, labels \in StoreLabelLists}

(***************************************************************************)
(* State.                                                                  *)
(*   db      the database                                                  *)
(*   pc      where the running sync pass stands ("idle": none is running)  *)
(*   pass    the local variables of the running pass                       *)
(*   result  how the pass ended, while pc = "done": "ok" or "err"          *)
(*   log     the provider calls and Store writes of the pass, in order     *)
(*   startDb the database when the direct call started, or when the pass   *)
(*           started if the pass is a tracked one                          *)
(*   startSync the sync_state table when the pass started                  *)
(*   call    the direct Store call that has just returned (pc = "api")     *)
(*   seeded  a sync state was written by a direct SetSyncState call        *)
(***************************************************************************)
VARIABLES db, pc, pass, result, log, startDb, startSync, call, seeded

vars == <<db, pc, pass, result, log, startDb, startSync, call, seeded>>

NoEmail == Email("", "", "", 0, 0, <<>>, FALSE, FALSE)
NoCall  ==
    [op |-> "none", email |-> NoEmail, id |-> "", labels |-> <<>>, ok |-> TRUE,
     args |-> <<>>, out |-> <<>>]

NoPass ==
    [entry |-> "none", count |-> 0, fetched |-> 0, pageToken |-> "",
     pages |-> 0, upserts |-> 0, honest |-> TRUE, limit |-> 0,
     labels |-> <<>>, msgs |-> <<>>, nextToken |-> "",
     since |-> 0, events |-> <<>>, newHistoryID |-> 0, msg |-> NoEmail, i |-> 0]

Init ==
    /\ db = schema
    /\ pc = "idle"
    /\ pass = NoPass
    /\ result = "none"
    /\ log = <<>>
    /\ startDb = schema
    /\ startSync = EmptyFn
    /\ call = NoCall
    /\ seeded = FALSE

Entry(op, id, ok) == [op |-> op, id |-> id, ok |-> ok]

(***************************************************************************)
(* Direct Store calls, made while no pass is running (single writer).      *)
(***************************************************************************)
ApiUpsertEmail ==
    /\ pc = "idle"
    /\ \E email \in ApiEmails : \E fault \in 0..UpsertEmailSteps(email) :
         LET r == UpsertEmail(db, email, AccountID, fault)
         IN /\ db' = r.db
            /\ call' = [NoCall EXCEPT !.op = "UpsertEmail", !.email = email,
                                      !.id = email.id, !.ok = r.ok]
    /\ pc' = "api"
    /\ startDb' = db
    /\ UNCHANGED <<pass, result, log, startSync, seeded>>

ApiSetEmailLabels ==
    /\ pc = "idle"
    /\ \E id \in MsgIds : \E labelIDs \in ApiLabelLists :
       \E fault \in 0..SetEmailLabelsSteps(labelIDs) :
         LET r == SetEmailLabels(db, id, labelIDs, fault)
         IN /\ db' = r.db
            /\ call' = [NoCall EXCEPT !.op = "SetEmailLabels", !.id = id,
                                      !.labels = labelIDs, !.ok = r.ok]
    /\ pc' = "api"
    /\ startDb' = db
    /\ UNCHANGED <<pass, result, log, startSync, seeded>>

ApiDeleteEmail ==
    /\ pc = "idle"
    /\ \E id \in MsgIds : \E fault \in 0..1 :
         LET r == DeleteEmail(db, id, fault)
         IN /\ db' = r.db
            /\ call' = [NoCall EXCEPT !.op = "DeleteEmail", !.id = id, !.ok = r.ok]
    /\ pc' = "api"
    /\ startDb' = db
    /\ UNCHANGED <<pass, result, log, startSync, seeded>>

ApiSetSyncState ==
    /\ pc = "idle"
    /\ \E h \in 0..MaxCursor : \E t \in Times : \E fault \in 0..1 :
         LET r == SetSyncState(db, [accountID |-> AccountID, historyID |-> h,
                                    lastSync |-> t], fault)
         IN /\ db' = r.db
            /\ call' = [NoCall EXCEPT !.op = "SetSyncState", !.ok = r.ok]
            /\ seeded' = (seeded \/ r.ok)
    /\ pc' = "api"
    /\ startDb' = db
    /\ UNCHANGED <<pass, result, log, startSync>>

\* The direct call has returned to its caller.
ApiReturn ==
    /\ pc = "api"
    /\ pc' = "idle"
    /\ call' = NoCall
    /\ startDb' = schema
    /\ UNCHANGED <<db, pass, result, log, startSync, seeded>>

(***************************************************************************)
(* The Store on its own, as the CLI and the TUI use it: any sequence of    *)
(* its operations over two accounts.  A query leaves its result in         *)
(* call.out; fault = 1 is an I/O error of the call.                        *)
(***************************************************************************)
Called(op, args, ok, out) ==
    /\ pc = "idle"
    /\ pc' = "api"
    /\ call' = [NoCall EXCEPT !.op = op, !.args = args, !.ok = ok, !.out = out]
    /\ startDb' = db
    /\ UNCHANGED <<pass, result, log, startSync, seeded>>

StoreCreateAccount ==
    pc = "idle" /\ \E id \in Accounts : \E fault \in 0..1 :
      LET r == CreateAccount(db, id, fault)
      IN db' = r.db /\ Called("CreateAccount", [id |-> id, fault |-> fault], r.ok, <<>>)

StoreDeleteAccount ==
    pc = "idle" /\ \E id \in Accounts : \E fault \in 0..1 :
      LET r == DeleteAccount(db, id, fault)
      IN db' = r.db /\ Called("DeleteAccount", [id |-> id, fault |-> fault], r.ok, <<>>)

StoreUpsertEmail ==
    pc = "idle" /\ \E email \in StoreEmails : \E accountID \in Accounts : \E fault \in 0..1 :
      LET r == UpsertEmail(db, email, accountID, fault)
      IN db' = r.db /\ Called("UpsertEmail",
                              [email |-> email, accountID |-> accountID, fault |-> fault],
                              r.ok, <<>>)

StoreSetEmailLabels ==
    pc = "idle" /\ \E id \in MsgIds : \E labelIDs \in StoreLabelLists \cup {<<"INBOX", "INBOX">>} :
    \E fault \in 0..1 :
      LET r == SetEmailLabels(db, id, labelIDs, fault)
      IN db' = r.db /\ Called("SetEmailLabels",
                              [id |-> id, labelIDs |-> labelIDs, fault |-> fault],
                              r.ok, <<>>)

StoreDeleteEmail ==
    pc = "idle" /\ \E id \in MsgIds : \E fault \in 0..1 :
      LET r == DeleteEmail(db, id, fault)
      IN db' = r.db /\ Called("DeleteEmail", [id |-> id, fault |-> fault], r.ok, <<>>)

StoreSetEmailRead ==
    pc = "idle" /\ \E id \in MsgIds : \E read \in BOOLEAN : \E fault \in 0..1 :
      LET r == SetEmailRead(db, id, read, fault)
      IN db' = r.db /\ Called("SetEmailRead",
                              [id |-> id, read |-> read, fault |-> fault], r.ok, <<>>)

StoreSetThreadRead ==
    pc = "idle" /\ \E threadID \in Threads : \E read \in BOOLEAN : \E fault \in 0..1 :
      LET r == SetThreadRead(db, threadID, read, fault)
      IN db' = r.db /\ Called("SetThreadRead",
                              [threadID |-> threadID, read |-> read, fault |-> fault],
                              r.ok, <<>>)

StoreGetEmail ==
    /\ pc = "idle"
    /\ UNCHANGED db
    /\ \E id \in MsgIds : \E fault \in 0..1 :
         LET out == GetEmail(db, id)
         IN IF fault = 1 THEN Called("GetEmail", [id |-> id, fault |-> fault], FALSE, <<>>)
            ELSE Called("GetEmail", [id |-> id, fault |-> fault], out.found, out)

StoreGetThread ==
    /\ pc = "idle"
    /\ UNCHANGED db
    /\ \E threadID \in Threads : \E accountID \in Accounts : \E fault \in 0..1 :
         LET args == [threadID |-> threadID, accountID |-> accountID, fault |-> fault]
         IN IF fault = 1 THEN Called("GetThread", args, FALSE, <<>>)
            ELSE \E out \in GetThread(db, threadID, accountID) :
                   Called("GetThread", args, out.found, out)

StoreListThreads ==
    /\ pc = "idle"
    /\ UNCHANGED db
    /\ \E opts \in ListOptions : \E fault \in 0..1 :
         LET args == [opts |-> opts, fault |-> fault]
         IN IF fault = 1 THEN Called("ListThreads", args, FALSE, <<>>)
            ELSE \E out \in ListThreads(db, opts) :
                   Called("ListThreads", args, out.ok, out.threads)

StoreListEmails ==
    /\ pc = "idle"
    /\ UNCHANGED db
    /\ \E opts \in ListOptions : \E fault \in 0..1 :
         LET args == [opts |-> opts, fault |-> fault]
         IN IF fault = 1 THEN Called("ListEmails", args, FALSE, <<>>)
            ELSE \E out \in ListEmails(db, opts) :
                   Called("ListEmails", args, out.ok, out.emails)

StoreSearchEmails ==
    /\ pc = "idle"
    /\ UNCHANGED db
    /\ \E query \in Queries : \E accountID \in Accounts : \E fault \in 0..1 :
         LET args == [query |-> query, accountID |-> accountID, fault |-> fault]
             out  == SearchEmails(db, query, accountID)
         IN IF fault = 1 THEN Called("SearchEmails", args, FALSE, {})
            ELSE Called("SearchEmails", args, out.ok, out.emails)

StoreSetSyncState ==
    pc = "idle" /\ \E state \in StoreSyncStates : \E fault \in 0..1 :
      LET r == SetSyncState(db, state, fault)
      IN db' = r.db /\ Called("SetSyncState", [state |-> state, fault |-> fault], r.ok, <<>>)

StoreUpsertLabel ==
    pc = "idle" /\ \E label \in StoreLabels : \E fault \in 0..1 :
      LET r == UpsertLabel(db, label, fault)
      IN db' = r.db /\ Called("UpsertLabel", [label |-> label, fault |-> fault], r.ok, <<>>)

StoreListLabels ==
    /\ pc = "idle"
    /\ UNCHANGED db
    /\ \E accountID \in Accounts : \E fault \in 0..1 :
         LET args == [accountID |-> accountID, fault |-> fault]
         IN IF fault = 1 THEN Called("ListLabels", args, FALSE, <<>>)
            ELSE \E out \in ListLabelsOf(db, accountID) :
                   Called("ListLabels", args, TRUE, out)

StoreUpsertOwnedEmail ==
    pc = "idle" /\ \E email \in OwnedEmails : \E accountID \in Accounts : \E fault \in 0..1 :
      LET r == UpsertEmail(db, email, accountID, fault)
      IN db' = r.db /\ Called("UpsertEmail",
                              [email |-> email, accountID |-> accountID, fault |-> fault],
                              r.ok, <<>>)

\* DB.GetSyncState as a direct call.
ApiGetSyncState ==
    /\ pc = "idle"
    /\ UNCHANGED db
    /\ \E accountID \in Accounts : \E fault \in 0..1 :
         LET args == [accountID |-> accountID, fault |-> fault]
         IN IF fault = 1 THEN Called("GetSyncState", args, FALSE, <<>>)
            ELSE Called("GetSyncState", args, TRUE, GetSyncState(db, accountID))

(***************************************************************************)
(* SyncService.  A failing call ends the pass with the error: the          *)
(* `return fmt.Errorf(...)` after every call.  d is the database the       *)
(* failed call leaves.                                                     *)
(***************************************************************************)
FailsAndSavesState(op, id, d) ==
    /\ pc' = "done"
    /\ result' = "err"
    /\ log' = Append(log, Entry(op, id, FALSE))
    /\ db' = SetSyncState(d, [accountID |-> AccountID,
                              historyID |-> pass.newHistoryID,
                              lastSync |-> MaxTime], 0).db
    /\ UNCHANGED <<pass, startDb, startSync, call, seeded>>
FailsAndRetries(op, id, d) ==
    /\ log' = Append(log, Entry(op, id, FALSE))
    /\ db' = d
    /\ UNCHANGED <<pc, pass, result, startDb, startSync, call, seeded>>
Fails(op, id, d) ==
    /\ pc' = "done"
    /\ result' = "err"
    /\ log' = Append(log, Entry(op, id, FALSE))
    /\ db' = d
    /\ UNCHANGED <<pass, startDb, startSync, call, seeded>>

\* `for fetched < count`
LoopHead(p) == IF p.fetched < p.count THEN "ListMessages" ELSE "SetSyncStateInitial"

\* A caller other than IncrementalSync starts InitialSync(count).  snap is
\* what the run records in startDb (nothing the program reads).
StartInitialSync(snap) ==
    /\ pc = "idle"
    /\ \E count \in (-1)..MaxCount :
         pass' = [NoPass EXCEPT !.entry = "InitialSync", !.count = count]
    /\ pc' = "ListLabels"
    /\ result' = "running"
    /\ log' = <<>>
    /\ startDb' = snap
    /\ startSync' = db.sync_state
    /\ UNCHANGED <<db, call, seeded>>

\* IncrementalSync up to its first provider call: GetSyncState, then the
\* fallback InitialSync(500) when the stored history id is 0.
StartIncrementalSync(snap) ==
    /\ pc = "idle"
    /\ startDb' = snap
    /\ startSync' = db.sync_state
    /\ UNCHANGED <<db, call, seeded>>
    /\ \/ /\ pc' = "done"
          /\ result' = "err"
          /\ log' = <<Entry("GetSyncState", AccountID, FALSE)>>
          /\ pass' = [NoPass EXCEPT !.entry = "IncrementalSync"]
       \/ /\ log' = <<Entry("GetSyncState", AccountID, TRUE)>>
          /\ result' = "running"
          /\ LET state == GetSyncState(db, AccountID)
             IN IF state.historyID = 0
                THEN /\ pc' = "ListLabels"
                     /\ pass' = [NoPass EXCEPT !.entry = "IncrementalSync",
                                               !.count = DefaultCount]
                ELSE /\ pc' = "History"
                     /\ pass' = [NoPass EXCEPT !.entry = "IncrementalSync",
                                               !.since = state.historyID]

InitialSync     == StartInitialSync(schema)
IncrementalSync == StartIncrementalSync(schema)

\* The same two entry points, with the database at the start of the pass
\* recorded in startDb.
TrackedInitialSync     == StartInitialSync(db)
TrackedIncrementalSync == StartIncrementalSync(db)

\* s.provider.ListLabels(ctx)
ListLabels ==
    /\ pc = "ListLabels"
    /\ \/ Fails("ListLabels", "", db)
       \/ /\ \E labels \in ProviderLabels :
               /\ pass' = [pass EXCEPT !.labels = labels, !.i = 1]
               /\ pc' = IF labels = <<>> THEN LoopHead(pass) ELSE "UpsertLabel"
          /\ log' = Append(log, Entry("ListLabels", "", TRUE))
          /\ UNCHANGED <<db, result, startDb, startSync, call, seeded>>

\* labels[i].AccountID = s.accountID; s.store.UpsertLabel(ctx, &labels[i])
UpsertLabelStep ==
    /\ pc = "UpsertLabel"
    /\ LET label == [id |-> pass.labels[pass.i].id, name |-> pass.labels[pass.i].name,
                     accountID |-> AccountID]
       IN \E fault \in 0..1 :
            LET r == UpsertLabel(db, label, fault)
            IN IF ~r.ok THEN Fails("UpsertLabel", label.id, r.db)
               ELSE /\ db' = r.db
                    /\ log' = Append(log, Entry("UpsertLabel", label.id, TRUE))
                    /\ pass' = [pass EXCEPT !.i = @ + 1]
                    /\ pc' = IF pass.i < Len(pass.labels) THEN "UpsertLabel"
                             ELSE LoopHead(pass)
                    /\ UNCHANGED <<result, startDb, startSync, call, seeded>>

\* The limit of the next page: min(batchSize, count - fetched).
PageLimitAlwaysBatch(p) == batchSize
PageLimit(p) == Min(batchSize, p.count - p.fetched)

\* s.provider.ListMessages(ctx, ListOptions{PageToken, MaxResults: limit})
ListMessages ==
    /\ pc = "ListMessages"
    /\ \/ Fails("ListMessages", pass.pageToken, db)
       \/ /\ \E msgs \in SeqsUpTo(AllProviderEmails, MaxPageLen) :
             \E nextToken \in {"", "next"} :
               /\ nextToken = "next" => pass.pages + 1 < MaxPages
               /\ pass' = [pass EXCEPT !.msgs = msgs, !.nextToken = nextToken,
                                       !.i = 1, !.pages = @ + 1,
                                       !.limit = PageLimit(pass),
                                       !.honest = @ /\ Len(msgs) <= PageLimit(pass)]
               /\ pc' = IF msgs = <<>> THEN "SetSyncStateInitial" ELSE "UpsertEmail"
          /\ log' = Append(log, Entry("ListMessages", pass.pageToken, TRUE))
          /\ UNCHANGED <<db, result, startDb, startSync, call, seeded>>

\* The end of one iteration of the paging loop, after the page's last
\* message: fetched += len(msgs); break on an empty token.  msgs, nextToken
\* and limit are local to the iteration.
AfterPageSameCount(p) ==
    LET q == [p EXCEPT !.upserts = @ + 1,
                       !.msgs = <<>>, !.nextToken = "", !.limit = 0, !.i = 0]
    IN IF p.nextToken = ""
       THEN [pc |-> "SetSyncStateInitial", pass |-> q]
       ELSE [pc |-> LoopHead(q), pass |-> [q EXCEPT !.pageToken = p.nextToken]]
AfterPage(p) ==
    LET q == [p EXCEPT !.fetched = @ + Len(p.msgs), !.upserts = @ + 1,
                       !.msgs = <<>>, !.nextToken = "", !.limit = 0, !.i = 0]
    IN IF p.nextToken = ""
       THEN [pc |-> "SetSyncStateInitial", pass |-> q]
       ELSE [pc |-> LoopHead(q), pass |-> [q EXCEPT !.pageToken = p.nextToken]]

\* s.store.UpsertEmail(ctx, &msgs[i], s.accountID) in the paging loop
UpsertPageEmail ==
    /\ pc = "UpsertEmail"
    /\ LET email == pass.msgs[pass.i]
       IN \E fault \in 0..UpsertEmailSteps(email) :
            LET r == UpsertEmail(db, email, AccountID, fault)
            IN IF ~r.ok THEN Fails("UpsertEmail", email.id, r.db)
               ELSE /\ db' = r.db
                    /\ log' = Append(log, Entry("UpsertEmail", email.id, TRUE))
                    /\ IF pass.i < Len(pass.msgs)
                       THEN /\ pass' = [pass EXCEPT !.i = @ + 1, !.upserts = @ + 1]
                            /\ pc' = "UpsertEmail"
                       ELSE /\ pass' = AfterPage(pass).pass
                            /\ pc' = AfterPage(pass).pc
                    /\ UNCHANGED <<result, startDb, startSync, call, seeded>>

\* The history id InitialSync records.
InitialHistoryIDOfProvider == MaxCursor
InitialHistoryID == 0

\* The last statement of InitialSync: SetSyncState{HistoryID: 0, LastSync: now}
SetSyncStateInitial ==
    /\ pc = "SetSyncStateInitial"
    /\ \E now \in Times : \E fault \in 0..1 :
         LET r == SetSyncState(db, [accountID |-> AccountID,
                                    historyID |-> InitialHistoryID,
                                    lastSync |-> now], fault)
         IN IF ~r.ok THEN Fails("SetSyncState", AccountID, r.db)
            ELSE /\ db' = r.db
                 /\ log' = Append(log, Entry("SetSyncState", AccountID, TRUE))
                 /\ pc' = "done"
                 /\ result' = "ok"
                 /\ UNCHANGED <<pass, startDb, startSync, call, seeded>>

\* s.provider.History(ctx, state.HistoryID)
History ==
    /\ pc = "History"
    /\ \/ Fails("History", "", db)
       \/ /\ \E events \in SeqsUpTo(HistoryEvents, MaxEvents) :
             \E newHistoryID \in 0..MaxCursor :
               /\ pass' = [pass EXCEPT !.events = events,
                                       !.newHistoryID = newHistoryID, !.i = 1]
               /\ pc' = IF events = <<>> THEN "SetSyncStateIncremental" ELSE "Event"
          /\ log' = Append(log, Entry("History", "", TRUE))
          /\ UNCHANGED <<db, result, startDb, startSync, call, seeded>>

\* The event the loop `for _, event := range events` stands at.
EventFromTheEnd == pass.events[Len(pass.events) + 1 - pass.i]
Event == pass.events[pass.i]

NeedsMessage(event) == event.type # "HistoryMessageDeleted"

\* s.provider.GetMessage(ctx, event.MessageID), in the cases
\* HistoryMessageAdded and HistoryLabelsAdded/HistoryLabelsRemoved
GetMessage ==
    /\ pc = "Event"
    /\ NeedsMessage(Event)
    /\ \/ Fails("GetMessage", Event.messageID, db)
       \/ /\ \E msg \in ProviderEmails(Event.messageID) :
               pass' = [pass EXCEPT !.msg = msg]
          /\ pc' = "EventWrite"
          /\ log' = Append(log, Entry("GetMessage", Event.messageID, TRUE))
          /\ UNCHANGED <<db, result, startDb, startSync, call, seeded>>

\* The Store write of one event, given the message GetMessage returned.
WriteOp(event) ==
    CASE event.type = "HistoryMessageAdded"   -> "UpsertEmail"
      [] event.type = "HistoryMessageDeleted" -> "DeleteEmail"
      [] OTHER                                -> "SetEmailLabels"

WriteSteps(event, msg) ==
    CASE event.type = "HistoryMessageAdded"   -> UpsertEmailSteps(msg)
      [] event.type = "HistoryMessageDeleted" -> 1
      [] OTHER                                -> SetEmailLabelsSteps(msg.labels)

EventWrite(d, event, msg, fault) ==
    CASE event.type = "HistoryMessageAdded"   -> UpsertEmail(d, msg, AccountID, fault)
      [] event.type = "HistoryMessageDeleted" -> DeleteEmail(d, event.messageID, fault)
      [] OTHER                                -> SetEmailLabels(d, msg.id, msg.labels, fault)

\* The loop goes on to the next event, or leaves for SetSyncState.
NextEvent ==
    IF pass.i < Len(pass.events)
    THEN /\ pass' = [pass EXCEPT !.i = @ + 1, !.msg = NoEmail]
         /\ pc' = "Event"
    ELSE /\ pass' = [pass EXCEPT !.msg = NoEmail]
         /\ pc' = "SetSyncStateIncremental"

WriteStep ==
    \E fault \in 0..WriteSteps(Event, pass.msg) :
      LET r == EventWrite(db, Event, pass.msg, fault)
      IN IF ~r.ok THEN Fails(WriteOp(Event), Event.messageID, r.db)
         ELSE /\ db' = r.db
              /\ log' = Append(log, Entry(WriteOp(Event), Event.messageID, TRUE))
              /\ NextEvent
              /\ UNCHANGED <<result, startDb, startSync, call, seeded>>

\* case provider.HistoryMessageAdded: s.store.UpsertEmail(ctx, msg, s.accountID)
AddedUpsertEmail ==
    /\ pc = "EventWrite"
    /\ Event.type = "HistoryMessageAdded"
    /\ WriteStep

\* case provider.HistoryMessageDeleted: s.store.DeleteEmail(ctx, event.MessageID)
DeletedDeleteEmail ==
    /\ pc = "Event"
    /\ Event.type = "HistoryMessageDeleted"
    /\ WriteStep

\* case provider.HistoryLabelsAdded, provider.HistoryLabelsRemoved:
\* s.store.SetEmailLabels(ctx, msg.ID, msg.Labels)
LabelsSetEmailLabels ==
    /\ pc = "EventWrite"
    /\ Event.type \in {"HistoryLabelsAdded", "HistoryLabelsRemoved"}
    /\ WriteStep

\* The last statement of IncrementalSync:
\* SetSyncState{HistoryID: newHistoryID, LastSync: now}
SetSyncStateIncremental ==
    /\ pc = "SetSyncStateIncremental"
    /\ \E now \in Times : \E fault \in 0..1 :
         LET r == SetSyncState(db, [accountID |-> AccountID,
                                    historyID |-> pass.newHistoryID,
                                    lastSync |-> now], fault)
         IN IF ~r.ok THEN Fails("SetSyncState", AccountID, r.db)
            ELSE /\ db' = r.db
                 /\ log' = Append(log, Entry("SetSyncState", AccountID, TRUE))
                 /\ pc' = "done"
                 /\ result' = "ok"
                 /\ UNCHANGED <<pass, startDb, startSync, call, seeded>>

\* The pass has returned to its caller.
Return ==
    /\ pc = "done"
    /\ pc' = "idle"
    /\ pass' = NoPass
    /\ result' = "none"
    /\ log' = <<>>
    /\ startDb' = schema
    /\ startSync' = EmptyFn
    /\ UNCHANGED <<db, call, seeded>>

Next ==
    \/ ApiUpsertEmail
    \/ ApiSetEmailLabels
    \/ ApiDeleteEmail
    \/ ApiSetSyncState
    \/ ApiGetSyncState
    \/ ApiReturn
    \/ InitialSync
    \/ IncrementalSync
    \/ ListLabels
    \/ UpsertLabelStep
    \/ ListMessages
    \/ UpsertPageEmail
    \/ SetSyncStateInitial
    \/ History
    \/ GetMessage
    \/ AddedUpsertEmail
    \/ DeletedDeleteEmail
    \/ LabelsSetEmailLabels
    \/ SetSyncStateIncremental
    \/ Return

Spec == Init /\ [][Next]_vars

\* The passes of SpecTracked record the database they started from.
PassStep ==
    \/ ListLabels
    \/ UpsertLabelStep
    \/ ListMessages
    \/ UpsertPageEmail
    \/ SetSyncStateInitial
    \/ History
    \/ GetMessage
    \/ AddedUpsertEmail
    \/ DeletedDeleteEmail
    \/ LabelsSetEmailLabels
    \/ SetSyncStateIncremental
    \/ Return

NextTracked ==
    \/ ApiSetSyncState
    \/ ApiReturn
    \/ TrackedInitialSync
    \/ TrackedIncrementalSync
    \/ PassStep

SpecTracked == Init /\ [][NextTracked]_vars

(***************************************************************************)
(* A reader next to the writers.  GetEmail runs two statements on the      *)
(* connection pool, outside any transaction: the SELECT of the row, then   *)
(* the SELECT of the label rows.  Every write is one transaction and       *)
(* commits at once; a commit may fall between the two statements.  While   *)
(* a GetEmail runs, log holds the database after each such commit.         *)
(***************************************************************************)
ReaderEmails ==
    {Email(id, "t1", subject, 1, 0, labels, FALSE, FALSE) :
       id \in MsgIds, subject \in Subjects, labels \in StoreLabelLists}

\* QueryRowContext(SELECT ... FROM emails WHERE id = ?).Scan(...)
GetEmailRow ==
    /\ pc = "idle"
    /\ \E id \in MsgIds :
         IF id \notin StoredIds(db)
         THEN /\ pc' = "api"
              /\ call' = [NoCall EXCEPT !.op = "GetEmail", !.args = [id |-> id],
                                        !.ok = FALSE, !.out = [found |-> FALSE]]
         ELSE /\ pc' = "GetEmailLabels"
              /\ call' = [NoCall EXCEPT !.op = "GetEmail", !.args = [id |-> id],
                                        !.out = [GetEmail(db, id) EXCEPT !.labels = {}]]
    /\ startDb' = db
    /\ log' = <<>>
    /\ UNCHANGED <<db, pass, result, startSync, seeded>>

\* QueryContext(SELECT label_id FROM email_labels WHERE email_id = ?)
GetEmailLabels ==
    /\ pc = "GetEmailLabels"
    /\ pc' = "api"
    /\ call' = [call EXCEPT !.out.labels = LabelsOf(db, call.args.id)]
    /\ UNCHANGED <<db, pass, result, log, startDb, startSync, seeded>>

\* A write of another goroutine commits.
Commits(d) ==
    /\ pc \in {"idle", "GetEmailLabels"}
    /\ db' = d
    /\ IF pc = "GetEmailLabels"
       THEN Len(log) < MaxWrites /\ log' = Append(log, d)
       ELSE log' = log
    /\ UNCHANGED <<pc, pass, result, startDb, startSync, call, seeded>>

WriterUpsertEmail ==
    \E email \in ReaderEmails : \E fault \in 0..1 :
      Commits(UpsertEmail(db, email, AccountID, fault).db)

WriterSetEmailLabels ==
    \E id \in MsgIds : \E labelIDs \in StoreLabelLists : \E fault \in 0..1 :
      Commits(SetEmailLabels(db, id, labelIDs, fault).db)

WriterDeleteEmail ==
    \E id \in MsgIds : \E fault \in 0..1 :
      Commits(DeleteEmail(db, id, fault).db)

\* GetEmail has returned to its caller.
GetEmailReturn ==
    /\ pc = "api"
    /\ pc' = "idle"
    /\ call' = NoCall
    /\ startDb' = schema
    /\ log' = <<>>
    /\ UNCHANGED <<db, pass, result, startSync, seeded>>

NextReader ==
    \/ GetEmailRow
    \/ GetEmailLabels
    \/ WriterUpsertEmail
    \/ WriterSetEmailLabels
    \/ WriterDeleteEmail
    \/ GetEmailReturn

SpecReader == Init /\ [][NextReader]_vars

\* InitialSync passes of the service of account AccountID over a Store in
\* which other accounts keep labels of their own.
NextLabels ==
    \/ StoreCreateAccount
    \/ StoreUpsertLabel
    \/ ApiReturn
    \/ TrackedInitialSync
    \/ ListLabels
    \/ UpsertLabelStep
    \/ ListMessages
    \/ UpsertPageEmail
    \/ SetSyncStateInitial
    \/ Return

SpecLabels == Init /\ [][NextLabels]_vars

\* The Store's account-scoped tables: accounts, labels and sync state next
\* to the messages they own.
NextAccounts ==
    \/ StoreCreateAccount
    \/ StoreDeleteAccount
    \/ StoreSetSyncState
    \/ ApiGetSyncState
    \/ StoreUpsertLabel
    \/ StoreListLabels
    \/ StoreUpsertOwnedEmail
    \/ StoreSetEmailLabels
    \/ ApiReturn

SpecAccounts == Init /\ [][NextAccounts]_vars

NextStore ==
    \/ StoreCreateAccount
    \/ StoreDeleteAccount
    \/ StoreUpsertEmail
    \/ StoreSetEmailLabels
    \/ StoreDeleteEmail
    \/ StoreSetEmailRead
    \/ StoreSetThreadRead
    \/ StoreGetEmail
    \/ StoreGetThread
    \/ StoreListThreads
    \/ StoreListEmails
    \/ StoreSearchEmails
    \/ ApiReturn

SpecStore == Init /\ [][NextStore]_vars


(***************************************************************************)
(* The event loop of IncrementalSync as a function of the database: the    *)
(* batch is applied from event k on, GetMessage answering answers[id]      *)
(* (NoEmail: the call fails); the first failing call ends the loop.        *)
(***************************************************************************)
RECURSIVE RunBatch(_, _, _, _)
RunBatch(d, events, answers, k) ==
    IF k > Len(events) THEN d
    ELSE LET event == events[k]
             msg   == IF NeedsMessage(event) THEN answers[event.messageID] ELSE NoEmail
         IN IF NeedsMessage(event) /\ msg = NoEmail THEN d
            ELSE LET r == EventWrite(d, event, msg, 0)
                 IN IF ~r.ok THEN r.db
                    ELSE RunBatch(r.db, events, answers, k + 1)

\* The answers of a provider that answers GetMessage(id) the same way
\* every time.
GetMessageAnswers ==
    {f \in [MsgIds -> AllProviderEmails \cup {NoEmail}] :
        \A id \in MsgIds : f[id] = NoEmail \/ f[id].id = id}

(***************************************************************************)
(* What the claims speak of.                                               *)
(***************************************************************************)
InPass == pc \notin {"idle", "api"}

CursorOf(sync_state) ==
    IF AccountID \in DOMAIN sync_state THEN sync_state[AccountID].history_id ELSE 0

\* What readers see of the replica: messages, label definitions and label
\* assignments.
Replica(d) == [emails |-> d.emails, email_labels |-> d.email_labels, labels |-> d.labels]

\* Messages, label assignments and search index.
StoreState(d) ==
    [emails |-> d.emails, email_labels |-> d.email_labels, emails_fts |-> d.emails_fts]

StoreWrites == {"UpsertLabel", "UpsertEmail", "DeleteEmail", "SetEmailLabels"}
EventCallOps == {"GetMessage", "UpsertEmail", "DeleteEmail", "SetEmailLabels"}
HistoryPcs == {"History", "Event", "EventWrite", "SetSyncStateIncremental"}

\* The calls a batch asks for, event by event.
RECURSIVE ExpectedCalls(_)
ExpectedCalls(events) ==
    IF events = <<>> THEN <<>>
    ELSE LET e == Head(events)
             these ==
               CASE e.type = "HistoryMessageAdded" ->
                      <<Entry("GetMessage", e.messageID, TRUE),
                        Entry("UpsertEmail", e.messageID, TRUE)>>
                 [] e.type = "HistoryMessageDeleted" ->
                      <<Entry("DeleteEmail", e.messageID, TRUE)>>
                 [] OTHER ->
                      <<Entry("GetMessage", e.messageID, TRUE),
                        Entry("SetEmailLabels", e.messageID, TRUE)>>
         IN these \o ExpectedCalls(Tail(events))

EventCalls == SelectSeq(log, LAMBDA x : x.op \in EventCallOps)

(***************************************************************************)
(* Claims.                                                                 *)
(***************************************************************************)

\* C1: a sync pass that fails leaves the account's SyncState (history
\* cursor and last-sync timestamp) as it was before the pass: while a pass
\* runs and after it has failed the sync_state table is the one the pass
\* started with, and SetSyncState is the last call of a pass, made only
\* after every earlier call succeeded.
C1_FailedPassKeepsSyncState ==
    /\ (InPass /\ result # "ok") => db.sync_state = startSync
    /\ \A i \in 1..Len(log) :
         log[i].op = "SetSyncState" =>
           /\ i = Len(log)
           /\ pc = "done"
           /\ \A j \in 1..(i - 1) : log[j].ok

\* A pass that started from a stored sync state has failed after a Store
\* write of it had succeeded.
C1_Witness ==
    /\ pc = "done" /\ result = "err"
    /\ AccountID \in DOMAIN startSync
    /\ \E i \in 1..Len(log) : log[i].op \in StoreWrites /\ log[i].ok

\* C2: in IncrementalSync with a non-zero stored cursor, the first call
\* that fails while an event is processed is the last call of the pass: no
\* later event is applied, no further provider call is made, the call is
\* not retried, and the pass ends with the error.
C2_EventFailureEndsPass ==
    pass.since > 0 =>
      \A i \in 1..Len(log) :
        ~log[i].ok => (i = Len(log) /\ pc = "done" /\ result = "err")

\* The Store write of the first of two events failed; the second event was
\* never reached.
C2_Witness ==
    /\ pc = "done" /\ result = "err" /\ pass.since > 0
    /\ Len(pass.events) = 2 /\ pass.i = 1
    /\ log[Len(log)].op = "UpsertEmail" /\ ~log[Len(log)].ok

\* C4: IncrementalSync applies the events of a history batch one at a
\* time in the order the provider returned them: the calls made for the
\* events are, in order, a prefix of the calls the batch asks for event by
\* event (GetMessage then the write for an added or label event, the
\* delete for a deleted event), and all of them once the pass succeeded.
C4_EventsAppliedInOrder ==
    (pass.since > 0 /\ pc # "History") =>
      LET calls == EventCalls
          exp   == ExpectedCalls(pass.events)
      IN /\ Len(calls) <= Len(exp)
         /\ \A j \in 1..Len(calls) : calls[j].op = exp[j].op /\ calls[j].id = exp[j].id
         /\ (pc = "done" /\ result = "ok") => Len(calls) = Len(exp)
         /\ pc = "EventWrite" => calls[Len(calls)].op = "GetMessage"

\* A batch of a deleted event for one message followed by an added event
\* for another has been applied.
C4_Witness ==
    /\ pc = "done" /\ result = "ok" /\ Len(pass.events) = 2
    /\ pass.events[1].type = "HistoryMessageDeleted"
    /\ pass.events[2].type = "HistoryMessageAdded"
    /\ pass.events[1].messageID # pass.events[2].messageID

C6_ReplicaAsBeforeFailedPass ==
    (pc = "done" /\ result = "err") => Replica(db) = Replica(startDb)

\* C6, amended: the call at which a pass fails changes nothing, and the
\* sync state is the one the pass started with; what the pass wrote before
\* the failure stays in the replica.
C6_FailingCallChangesNothing ==
    [][(pc # "done" /\ pc' = "done" /\ result' = "err")
         => (db' = db /\ db'.sync_state = startSync')]_vars

\* A pass has failed and the replica is not the one it started with.
C6_Witness ==
    /\ pc = "done" /\ result = "err"
    /\ Replica(db) # Replica(startDb)
    /\ db.sync_state = startSync

\* C7: on the InitialSync path the labels are listed and upserted before
\* any page is requested; a page is requested with MaxResults =
\* min(100, count - fetched), and only while fetched < count, the page
\* before had a next-page token and was not empty; with a provider that
\* returns at most MaxResults messages per page at most count messages
\* are upserted, none when count <= 0.
C7_InitialSyncPaging ==
    (InPass /\ pass.since = 0) =>
      /\ \A i, j \in 1..Len(log) :
           (i < j /\ log[i].op = "ListMessages") =>
             log[j].op \notin {"ListLabels", "UpsertLabel"}
      /\ pc = "UpsertEmail" =>
           /\ pass.limit >= 1
           /\ pass.limit = IF pass.count - pass.fetched < 100
                           THEN pass.count - pass.fetched ELSE 100
      /\ pc = "ListMessages" =>
           /\ pass.fetched < pass.count
           /\ pass.pages > 0 =>
                /\ pass.pageToken # ""
                /\ log[Len(log)].op = "UpsertEmail" /\ log[Len(log)].ok
      /\ pass.honest => pass.upserts <= Max(pass.count, 0)
      /\ pass.count <= 0 => \A i \in 1..Len(log) : log[i].op # "ListMessages"

\* InitialSync(2) has fetched its two messages in two pages.
C7_Witness ==
    /\ pc = "done" /\ result = "ok"
    /\ pass.entry = "InitialSync" /\ pass.count = 2
    /\ pass.pages = 2 /\ pass.upserts = 2 /\ pass.honest

\* C8: across a completed sync pass, against a provider whose returned
\* cursor is not below the cursor it was asked with, the stored cursor
\* does not decrease.
C8_CursorNeverDecreases ==
    (/\ pc = "done" /\ result = "ok"
     /\ pass.since > 0 => pass.newHistoryID >= pass.since)
      => CursorOf(db.sync_state) >= CursorOf(startSync)

\* C3: the event loop of IncrementalSync run twice over the same batch,
\* with the same GetMessage answers, leaves messages, label assignments
\* and search index as running it once does.
C3_RedeliveryIdempotent ==
    pc = "idle" =>
      \A events \in SeqsUpTo(HistoryEvents, ReplayLen) :
        \A answers \in GetMessageAnswers :
          LET once == RunBatch(db, events, answers, 1)
          IN StoreState(RunBatch(once, events, answers, 1)) = StoreState(once)

\* C9 as stated: after a successful UpsertEmail there is one row for the
\* id and GetEmail returns the fields and the label set of that call.
C9_LatestWriteWinsExactly ==
    /\ \A id \in MsgIds : Cardinality(RowsOf(db, id)) <= 1
    /\ (pc = "api" /\ call.op = "UpsertEmail" /\ call.ok) =>
         /\ Cardinality(RowsOf(db, call.id)) = 1
         /\ GetEmail(db, call.id) =
              [found |-> TRUE, id |-> call.id, threadID |-> call.email.threadID,
               subject |-> call.email.subject, body |-> call.email.body,
               date |-> call.email.date,
               labels |-> SeqToSet(call.email.labels),
               isRead |-> call.email.isRead, isStarred |-> call.email.isStarred,
               bcc |-> call.email.bcc]

\* C9, amended: there is never more than one row per id, and after a
\* successful UpsertEmail GetEmail returns the label set and the fields of
\* that call that have a column, the timestamp cut to whole seconds and
\* the fields without a column (BCC, Attachments) empty.
C9_LatestWriteWins ==
    /\ \A id \in MsgIds : Cardinality(RowsOf(db, id)) <= 1
    /\ (pc = "api" /\ call.op = "UpsertEmail" /\ call.ok) =>
         /\ Cardinality(RowsOf(db, call.id)) = 1
         /\ GetEmail(db, call.id) =
              [found |-> TRUE, id |-> call.id, threadID |-> call.email.threadID,
               subject |-> call.email.subject, body |-> call.email.body,
               date |-> [call.email.date EXCEPT !.nsec = 0],
               labels |-> SeqToSet(call.email.labels),
               isRead |-> call.email.isRead, isStarred |-> call.email.isStarred,
               bcc |-> <<>>]

\* A stored message has been overwritten by an UpsertEmail with another
\* subject.
C9_Witness ==
    /\ pc = "api" /\ call.op = "UpsertEmail" /\ call.ok
    /\ call.id \in StoredIds(startDb)
    /\ RowOf(startDb, call.id).subject # call.email.subject

\* C10: UpsertEmail is atomic over the row and the label set: a call that
\* fails leaves the database as it was, a call that succeeds leaves the
\* row and the label set of the new message.
C10_UpsertEmailAtomic ==
    (pc = "api" /\ call.op = "UpsertEmail") =>
      IF call.ok
      THEN /\ RowsOf(db, call.id) = {NewRow(call.email, AccountID)}
           /\ {r \in db.email_labels : r[1] = call.id} =
                {<<call.id, l>> : l \in SeqToSet(call.email.labels)}
      ELSE db = startDb

\* UpsertEmail with a label id twice in its list has failed on a stored
\* message that carried other content and labels.
C10_Witness ==
    /\ pc = "api" /\ call.op = "UpsertEmail" /\ ~call.ok
    /\ call.email.labels = <<"INBOX", "INBOX">>
    /\ call.id \in StoredIds(startDb)
    /\ RowOf(startDb, call.id).subject # call.email.subject
    /\ {r \in startDb.email_labels : r[1] = call.id} = {}

(***************************************************************************)
(* Claims about the Store's own operations.                                *)
(***************************************************************************)
Returned(op) == pc = "api" /\ call.op = op

\* C11: SetEmailLabels(id, L) on a stored message, L without a repeated
\* id, succeeds unless the database fails, and after a successful call
\* GetEmail(id) returns exactly the labels of L whatever labels the message
\* carried before; the rows of emails and the labels of the other messages
\* are unchanged.
C11_SetEmailLabelsReplaces ==
    Returned("SetEmailLabels") =>
      LET id == call.args.id
          L  == call.args.labelIDs
      IN /\ (/\ id \in StoredIds(startDb)
             /\ call.args.fault = 0
             /\ Cardinality(SeqToSet(L)) = Len(L)) => call.ok
         /\ (call.ok /\ id \in StoredIds(startDb)) =>
              /\ GetEmail(db, id).found
              /\ GetEmail(db, id).labels = SeqToSet(L)
              /\ db.emails = startDb.emails
              /\ \A other \in MsgIds \ {id} :
                   LabelsOf(db, other) = LabelsOf(startDb, other)

\* SetEmailLabels with the empty list has succeeded on a message that
\* carried a label.
C11_Witness ==
    /\ Returned("SetEmailLabels") /\ call.ok
    /\ call.args.labelIDs = <<>>
    /\ LabelsOf(startDb, call.args.id) = {"INBOX"}
    /\ call.args.id \in StoredIds(db)

\* The messages of the results of the list and search operations on d.
Listed(d) ==
    UNION {SeqToSet(out.emails) : out \in UNION {ListEmails(d, o) : o \in ListOptions}}
Searched(d) ==
    UNION {SearchEmails(d, q, a).emails : q \in Words, a \in Accounts}
Summaries(d) ==
    UNION {SeqToSet(out.threads) : out \in UNION {ListThreads(d, o) : o \in ListOptions}}

\* C12: after a successful DeleteEmail(id), GetEmail(id) reports not-found,
\* no email_labels row with that message id remains, no SearchEmails or
\* ListEmails result contains the message, and every ListThreads summary
\* is one of a thread that still has messages and counts none but the
\* messages that remain.
C12_DeleteEmailRemoves ==
    (Returned("DeleteEmail") /\ call.ok) =>
      LET id == call.args.id
      IN /\ ~GetEmail(db, id).found
         /\ \A x \in db.email_labels : x[1] # id
         /\ \A e \in Listed(db) \cup Searched(db) : e.id # id
         /\ \A t \in Summaries(db) :
              LET left == {r \in db.emails : r.thread_id = t.id /\ r.id # id}
              IN /\ left # {}
                 /\ t.totalCount <= Cardinality(left)
                 /\ t.subject \in {r.subject : r \in left}
                 /\ t.snippet \in {Snippet(r.body_text) : r \in left}

\* A stored message with a label, found by the list, search and thread
\* queries, is deleted while another message of its thread stays.
C12_Witness ==
    /\ Returned("DeleteEmail") /\ call.ok
    /\ <<call.args.id, "INBOX">> \in startDb.email_labels
    /\ \E e \in Listed(startDb) : e.id = call.args.id
    /\ \E e \in Searched(startDb) : e.id = call.args.id
    /\ \E r \in startDb.emails, q \in db.emails :
         r.id = call.args.id /\ q.thread_id = r.thread_id
    /\ Summaries(db) # {}

\* C13: after any sequence of UpsertEmail, SetEmailRead, SetThreadRead,
\* DeleteEmail and DeleteAccount the search index holds exactly one entry
\* per stored message, carrying the message's current subject (which
\* stands for the sender columns too) and body: no entry of a deleted
\* message and no text an overwrite replaced.
C13_IndexInSync ==
    /\ db.emails_fts = {<<r.id, r.subject, r.body_text>> : r \in db.emails}
    /\ \A id \in MsgIds :
         Cardinality({x \in db.emails_fts : x[1] = id}) =
           (IF id \in StoredIds(db) THEN 1 ELSE 0)

\* An overwrite has replaced the subject and the body of a stored message.
C13_Witness ==
    /\ Returned("UpsertEmail") /\ call.ok
    /\ call.args.email.id \in StoredIds(startDb)
    /\ RowOf(startDb, call.args.email.id).subject # call.args.email.subject
    /\ RowOf(startDb, call.args.email.id).body_text # call.args.email.body
    /\ Cardinality(db.emails) = 2

\* C14: SearchEmails(query, accountId), when the database does not fail,
\* returns without error exactly the stored messages of the account whose
\* subject (or sender) or body matches the query, none of another account,
\* and an empty result when nothing matches.
C14_SearchReturnsMatches ==
    (Returned("SearchEmails") /\ call.args.fault = 0) =>
      /\ call.ok
      /\ call.out = {ScanEmail(r) : r \in
                       {x \in db.emails :
                          /\ x.account_id = call.args.accountID
                          /\ \/ x.subject = call.args.query
                             \/ x.body_text.tag = call.args.query}}

\* C15: GetThread(threadId, accountId), when the database does not fail,
\* returns not-found exactly when the account holds no message with that
\* thread id (also when the thread exists under another account only), and
\* a thread it returns has a non-empty message list, all of that thread.
C15_GetThreadNotFound ==
    (Returned("GetThread") /\ call.args.fault = 0) =>
      LET held == {r \in db.emails : /\ r.thread_id = call.args.threadID
                                     /\ r.account_id = call.args.accountID}
      IN /\ call.ok <=> held # {}
         /\ ~call.ok => call.out = [found |-> FALSE]
         /\ call.ok =>
              /\ Len(call.out.messages) > 0
              /\ \A i \in 1..Len(call.out.messages) :
                   call.out.messages[i].id \in {r.id : r \in held}

\* Not-found for a thread that another account holds.
C15_Witness ==
    /\ Returned("GetThread") /\ call.args.fault = 0 /\ ~call.ok
    /\ \E r \in db.emails : /\ r.thread_id = call.args.threadID
                            /\ r.account_id # call.args.accountID

\* The instant a stored date stands for.
Instant(r) == ParseRFC3339(r.date).sec

\* C16: GetThread(threadId, accountId) returns all messages of that thread
\* and account ordered by timestamp ascending, Subject taken from the
\* earliest message, LastDate equal to the latest message's timestamp and
\* Snippet equal to the first at most 100 characters of the latest
\* message's body.
C16_GetThreadOrdered ==
    (Returned("GetThread") /\ call.ok) =>
      LET held == {r \in db.emails : /\ r.thread_id = call.args.threadID
                                     /\ r.account_id = call.args.accountID}
          earliest == {r \in held : \A q \in held : Instant(r) <= Instant(q)}
          latest   == {r \in held : \A q \in held : Instant(q) <= Instant(r)}
          msgs == call.out.messages
          first100(body) == IF body.chars > SnippetLen
                            THEN [body EXCEPT !.chars = SnippetLen] ELSE body
      IN /\ Len(msgs) = Cardinality(held)
         /\ {msgs[i].id : i \in 1..Len(msgs)} = {r.id : r \in held}
         /\ \A i, j \in 1..Len(msgs) :
              msgs[i].date.sec < msgs[j].date.sec => i < j
         /\ call.out.subject \in {r.subject : r \in earliest}
         /\ \E r \in latest :
              /\ call.out.lastDate.sec = Instant(r)
              /\ call.out.snippet = first100(r.body_text)

\* The latest instant among the rows of a group.
LastInstant(group) == CHOOSE n \in {Instant(r) : r \in group} :
                        \A r \in group : Instant(r) <= n

\* C17: ListThreads returns one summary per thread id, ordered by most
\* recent message descending: of two threads of the selection with
\* last-message timestamps T1 < T2 the T2 thread comes before the T1
\* thread; with Limit > 0 at most Limit summaries are returned, taken from
\* the front of that order (after the Offset skipped).
C17_ListThreadsOrdered ==
    (Returned("ListThreads") /\ call.ok) =>
      LET opts  == call.args.opts
          sel   == Selected(db, opts.accountID, opts.labelID)
          group(t) == {e \in sel : e.thread_id = t}
          ids   == {e.thread_id : e \in sel}
          out   == call.out
          pos(t) == {i \in 1..Len(out) : out[i].id = t}
      IN /\ \A i \in 1..Len(out) : out[i].id \in ids
         /\ \A t \in ids : Cardinality(pos(t)) <= 1
         /\ opts.limit > 0 => Len(out) <= opts.limit
         /\ (opts.limit = 0 /\ opts.offset = 0) => \A t \in ids : pos(t) # {}
         /\ \A t1, t2 \in ids :
              LastInstant(group(t1)) < LastInstant(group(t2)) =>
                /\ \A i \in pos(t1), j \in pos(t2) : j < i
                /\ (opts.offset = 0 /\ pos(t1) # {}) => pos(t2) # {}

\* C18: each ListThreads summary aggregates over the account's messages
\* with the thread id, those carrying labelId when a label is given:
\* subject (and sender) of the earliest of them, LastDate and the snippet
\* (at most 100 characters of the body) of the latest of them, TotalCount
\* their number.
C18_SummaryAggregatesSelection ==
    (Returned("ListThreads") /\ call.ok) =>
      \A k \in 1..Len(call.out) :
        LET t     == call.out[k]
            group == {e \in Selected(db, call.args.opts.accountID,
                                     call.args.opts.labelID) : e.thread_id = t.id}
            earliest == {r \in group : \A q \in group : Instant(r) <= Instant(q)}
            latest   == {r \in group : \A q \in group : Instant(q) <= Instant(r)}
            first100(body) == IF body.chars > SnippetLen
                              THEN [body EXCEPT !.chars = SnippetLen] ELSE body
        IN /\ group # {}
           /\ t.subject \in {r.subject : r \in earliest}
           /\ \E r \in latest : /\ t.lastDate.sec = Instant(r)
                                /\ t.snippet = first100(r.body_text)
           /\ t.totalCount = Cardinality(group)

\* C19 as stated: a thread reads as unread exactly when at least one of
\* its messages (the account's messages with the thread id) is unread, for
\* the HasUnread flag of ListThreads and for Thread.IsUnread.
C19_UnreadIffAnyMessageUnread ==
    /\ (Returned("ListThreads") /\ call.ok) =>
         \A k \in 1..Len(call.out) :
           LET t == call.out[k]
           IN /\ IsUnread(t) = t.hasUnread
              /\ t.hasUnread <=>
                   \E r \in db.emails : /\ r.thread_id = t.id
                                        /\ r.account_id = call.args.opts.accountID
                                        /\ ~r.is_read
    /\ (Returned("GetThread") /\ call.ok) =>
         (IsUnread(call.out) <=>
            \E r \in db.emails : /\ r.thread_id = call.args.threadID
                                 /\ r.account_id = call.args.accountID
                                 /\ ~r.is_read)

\* C19: a ListThreads summary has HasUnread exactly when at least one of
\* the messages it aggregates (the account's messages with the thread id,
\* those carrying labelId when a label is given) is unread; IsUnread of a
\* summary, whose Messages list is empty, is its HasUnread flag, and
\* IsUnread of a GetThread result, whose Messages list is not empty, holds
\* exactly when one of the thread's messages of the account is unread.
C19_UnreadIffAnyAggregatedUnread ==
    /\ (Returned("ListThreads") /\ call.ok) =>
         \A k \in 1..Len(call.out) :
           LET t == call.out[k]
               group == {e \in Selected(db, call.args.opts.accountID,
                                        call.args.opts.labelID) : e.thread_id = t.id}
           IN /\ IsUnread(t) = t.hasUnread
              /\ t.hasUnread <=> \E r \in group : ~r.is_read
    /\ (Returned("GetThread") /\ call.ok) =>
         (IsUnread(call.out) <=>
            \E r \in db.emails : /\ r.thread_id = call.args.threadID
                                 /\ r.account_id = call.args.accountID
                                 /\ ~r.is_read)

\* A summary of two messages, one read and one unread, reads as unread.
C19_Witness ==
    /\ Returned("ListThreads") /\ call.ok
    /\ \E k \in 1..Len(call.out) :
         /\ call.out[k].totalCount = 2
         /\ call.out[k].hasUnread
         /\ \E r \in db.emails : r.thread_id = call.out[k].id /\ r.is_read

\* C20: GetSyncState(accountId) for an account with no sync_state row
\* returns, unless the database fails, no error and the zero-valued state
\* (cursor 0, last sync 0) carrying that account id, and creates no row.
C20_GetSyncStateZeroValue ==
    (/\ Returned("GetSyncState") /\ call.args.fault = 0
     /\ call.args.accountID \notin DOMAIN startDb.sync_state) =>
      /\ call.ok
      /\ call.out = [accountID |-> call.args.accountID, historyID |-> 0,
                     lastSync |-> 0]
      /\ call.args.accountID \notin DOMAIN db.sync_state
      /\ db = startDb

\* The state of an account without a row is read while another account
\* has one.
C20_Witness ==
    /\ Returned("GetSyncState") /\ call.args.fault = 0 /\ call.ok
    /\ call.args.accountID \notin DOMAIN db.sync_state
    /\ DOMAIN db.sync_state # {}
    /\ call.out.historyID = 0

\* C21: SetSyncState is an upsert by account id.  After a successful
\* SetSyncState(state), GetSyncState(state.AccountID) returns the cursor
\* and the last-sync value of that call and there is one row for the
\* account; the states of the other accounts are as before; a failed
\* SetSyncState, and every call but SetSyncState and DeleteAccount, change
\* no sync state.
C21_SetSyncStateUpserts ==
    /\ (Returned("SetSyncState") /\ call.ok) =>
         LET state == call.args.state
         IN /\ GetSyncState(db, state.accountID) = state
            /\ state.accountID \in DOMAIN db.sync_state
            /\ \A a \in Accounts \ {state.accountID} :
                 /\ GetSyncState(db, a) = GetSyncState(startDb, a)
                 /\ a \in DOMAIN db.sync_state <=> a \in DOMAIN startDb.sync_state
    /\ (Returned("SetSyncState") /\ ~call.ok) => db.sync_state = startDb.sync_state
    /\ (pc = "api" /\ call.op \notin {"SetSyncState", "DeleteAccount"}) =>
         db.sync_state = startDb.sync_state

\* A second SetSyncState for the account replaces the cursor of the
\* first, while the other account has a state of its own.
C21_Witness ==
    /\ Returned("SetSyncState") /\ call.ok
    /\ call.args.state.accountID \in DOMAIN startDb.sync_state
    /\ GetSyncState(startDb, call.args.state.accountID).historyID
         # call.args.state.historyID
    /\ \E a \in DOMAIN db.sync_state : a # call.args.state.accountID

\* What an account owns in d: its messages, their label rows and index
\* entries, its label definitions and its sync state.
Owned(d, a) ==
    LET msgs == {r \in d.emails : r.account_id = a}
    IN [account |-> a \in d.accounts,
        emails |-> msgs,
        email_labels |-> {x \in d.email_labels : x[1] \in {r.id : r \in msgs}},
        emails_fts |-> {x \in d.emails_fts : x[1] \in {r.id : r \in msgs}},
        labels |-> {<<l, d.labels[l]>> : l \in {k \in DOMAIN d.labels :
                                                  d.labels[k].account_id = a}},
        sync_state |-> IF a \in DOMAIN d.sync_state THEN {d.sync_state[a]} ELSE {}]

\* C22: after a successful DeleteAccount(id) no message, message-label
\* row, label definition, sync state or search-index entry of the account
\* remains (and no label row or index entry without its message), and
\* what every other account owns is unchanged.
C22_DeleteAccountCascades ==
    (Returned("DeleteAccount") /\ call.ok) =>
      LET id == call.args.id
      IN /\ Owned(db, id) = [account |-> FALSE, emails |-> {}, email_labels |-> {},
                             emails_fts |-> {}, labels |-> {}, sync_state |-> {}]
         /\ \A x \in db.email_labels \cup db.emails_fts : x[1] \in StoredIds(db)
         /\ \A a \in Accounts \ {id} : Owned(db, a) = Owned(startDb, a)

\* The deleted account owned a labelled message, a label definition and a
\* sync state, and so does the other account.
C22_Witness ==
    /\ Returned("DeleteAccount") /\ call.ok
    /\ \A a \in Accounts :
         /\ Owned(startDb, a).email_labels # {}
         /\ Owned(startDb, a).labels # {}
         /\ Owned(startDb, a).sync_state # {}

\* C28: UpsertLabel is an upsert by label id.  Re-upserting a stored id
\* succeeds unless the database fails, sets the name (which stands for
\* name, type and color) and neither adds a row nor changes the id or the
\* account of the row or any other label; ListLabels(accountId) returns
\* the labels of the account, each once, ordered by name.
C28_UpsertLabelUpserts ==
    /\ (Returned("UpsertLabel") /\ call.args.label.id \in DOMAIN startDb.labels) =>
         LET label == call.args.label
         IN /\ call.ok <=> call.args.fault = 0
            /\ DOMAIN db.labels = DOMAIN startDb.labels
            /\ \A l \in DOMAIN db.labels \ {label.id} : db.labels[l] = startDb.labels[l]
            /\ db.labels[label.id].account_id = startDb.labels[label.id].account_id
            /\ db.labels[label.id].name =
                 (IF call.ok THEN label.name ELSE startDb.labels[label.id].name)
    /\ (Returned("ListLabels") /\ call.ok) =>
         LET out == call.out
             own == {l \in DOMAIN db.labels :
                       db.labels[l].account_id = call.args.accountID}
         IN /\ Len(out) = Cardinality(own)
            /\ {out[i].id : i \in 1..Len(out)} = own
            /\ \A i \in 1..Len(out) :
                 /\ out[i].name = db.labels[out[i].id].name
                 /\ out[i].accountID = call.args.accountID
            /\ \A i, j \in 1..Len(out) :
                 NameRank(out[i].name) < NameRank(out[j].name) => i < j

\* A stored label is renamed while its account holds a second label.
C28_Witness ==
    /\ Returned("UpsertLabel") /\ call.ok
    /\ call.args.label.id \in DOMAIN startDb.labels
    /\ startDb.labels[call.args.label.id].name # call.args.label.name
    /\ \E l \in DOMAIN db.labels \ {call.args.label.id} :
         db.labels[l].account_id = db.labels[call.args.label.id].account_id

\* C29: a constraint violation is reported and changes nothing: UpsertEmail
\* and UpsertLabel with an account id that has no account row, and
\* SetEmailLabels with a message id that has no message row, return an
\* error and leave every table as it was before the call.
C29_ConstraintViolationsReported ==
    /\ (Returned("UpsertEmail") /\ call.args.accountID \notin startDb.accounts) =>
         ~call.ok /\ db = startDb
    /\ (Returned("UpsertLabel") /\ call.args.label.accountID \notin startDb.accounts) =>
         ~call.ok /\ db = startDb
    /\ (Returned("SetEmailLabels") /\ call.args.id \notin StoredIds(startDb)) =>
         ~call.ok /\ db = startDb

\* C27: ListEmails(accountId, labelId, limit, offset) returns only messages
\* of the account, only those carrying labelId when one is given, each at
\* most once, ordered by timestamp descending and restricted to the window
\* of limit messages (all, when no limit is given) starting at position
\* offset of that order.
C27_ListEmailsWindow ==
    (Returned("ListEmails") /\ call.ok) =>
      LET opts == call.args.opts
          sel  == Selected(db, opts.accountID, opts.labelID)
          out  == call.out
      IN /\ \A i \in 1..Len(out) : out[i].id \in {r.id : r \in sel}
         /\ \A i, j \in 1..Len(out) : out[i].id = out[j].id => i = j
         /\ \A i, j \in 1..Len(out) : out[i].date.sec > out[j].date.sec => i < j
         /\ \E s \in Arrangements(sel) :
              /\ \A i, j \in 1..Len(s) : Instant(s[i]) > Instant(s[j]) => i < j
              /\ LET rest == IF opts.offset >= Len(s) THEN <<>>
                             ELSE SubSeq(s, opts.offset + 1, Len(s))
                     page == IF opts.limit > 0 /\ opts.limit < Len(rest)
                             THEN SubSeq(rest, 1, opts.limit) ELSE rest
                 IN /\ Len(out) = Len(page)
                    /\ \A i \in 1..Len(page) : out[i].id = page[i].id

\* The ids of the labels ListLabels(accountId) returns.
ListedLabelIds(d, a) ==
    UNION {{out[i].id : i \in 1..Len(out)} : out \in ListLabelsOf(d, a)}

\* C23: after a successful InitialSync of an account, ListLabels of the
\* account contains every label the provider's ListLabels returned to the
\* pass, also when another account had stored a label with the same id,
\* and no label has left the ListLabels of another account.
C23_LabelsScopedToAccount ==
    (pc = "done" /\ result = "ok") =>
      /\ \A i \in 1..Len(pass.labels) :
           pass.labels[i].id \in ListedLabelIds(db, AccountID)
      /\ \A a \in Accounts \ {AccountID} :
           ListedLabelIds(startDb, a) \subseteq ListedLabelIds(db, a)

\* C25: a GetEmail that runs while UpsertEmail, SetEmailLabels or
\* DeleteEmail commit on the same message returns the message as it was
\* in one committed state of the database, the one before or one after
\* the writes: never the fields of one version with the label set of
\* another.
C25_ReaderSeesOneVersion ==
    (Returned("GetEmail") /\ call.ok) =>
      \E v \in {startDb} \cup SeqToSet(log) : call.out = GetEmail(v, call.args.id)

(***************************************************************************)
(* Several SyncService values on one Store, each running one pass in a     *)
(* goroutine of its own: NewSyncService(store, provider, accountID) once   *)
(* per account, or twice for one account when the caller takes no lock.    *)
(* In these specifications pc, pass, result and log are functions of the   *)
(* service: pass[s].accountID is s.accountID, pass[s].ids the message ids  *)
(* of the mailbox its provider serves, and log[s] the Store calls the      *)
(* pass has made, with their arguments and outcomes.  A step is one        *)
(* provider call or one Store call; Store calls are atomic.                *)
(***************************************************************************)
Svcs == {"p1", "p2"}
MaxSvcEvents == 1

SvcPass(accountID, ids) ==
    [accountID |-> accountID, ids |-> ids, count |-> 0, fetched |-> 0,
     pageToken |-> "", pages |-> 0, labels |-> <<>>, msgs |-> <<>>,
     nextToken |-> "", since |-> 0, events |-> <<>>, newHistoryID |-> 0,
     msg |-> NoEmail, i |-> 0]

\* A Store call of a pass as log[s] records it.
StoreCall(op, arg, fault, ok) == [op |-> op, arg |-> arg, fault |-> fault, ok |-> ok]

\* The Store calls of the passes, by name.
SvcWriteOneCursor(d, op, arg, accountID, fault) ==
    CASE op = "UpsertLabel" ->
           UpsertLabel(d, [id |-> arg.id, name |-> arg.name, accountID |-> accountID],
                       fault)
      [] op = "UpsertEmail"    -> UpsertEmail(d, arg, accountID, fault)
      [] op = "DeleteEmail"    -> DeleteEmail(d, arg, fault)
      [] op = "SetEmailLabels" -> SetEmailLabels(d, arg.id, arg.labels, fault)
      [] op = "SetSyncState"   ->
           SetSyncState(d, [arg EXCEPT !.accountID = AccountID], fault)
SvcWrite(d, op, arg, accountID, fault) ==
    CASE op = "UpsertLabel" ->
           UpsertLabel(d, [id |-> arg.id, name |-> arg.name, accountID |-> accountID],
                       fault)
      [] op = "UpsertEmail"    -> UpsertEmail(d, arg, accountID, fault)
      [] op = "DeleteEmail"    -> DeleteEmail(d, arg, fault)
      [] op = "SetEmailLabels" -> SetEmailLabels(d, arg.id, arg.labels, fault)
      [] op = "SetSyncState"   -> SetSyncState(d, arg, fault)

\* The service moves on: its pc and locals change, the others' do not.
Goes(s, to, p) ==
    /\ pc' = [pc EXCEPT ![s] = to]
    /\ pass' = [pass EXCEPT ![s] = p]

\* A provider call of service s fails: the pass returns the error.
SvcFails(s) ==
    /\ pc' = [pc EXCEPT ![s] = "done"]
    /\ result' = [result EXCEPT ![s] = "err"]
    /\ UNCHANGED <<db, pass, log, startDb, startSync, call, seeded>>

\* Service s makes the Store call op(arg); on success it goes to `to` with
\* locals p, on failure the pass returns the error.
SvcCalls(s, op, arg, to, p) ==
    \E fault \in 0..1 :
      LET r == SvcWrite(db, op, arg, pass[s].accountID, fault)
      IN /\ db' = r.db
         /\ log' = [log EXCEPT ![s] = Append(@, StoreCall(op, arg, fault, r.ok))]
         /\ IF r.ok
            THEN /\ Goes(s, to, p)
                 /\ result' = IF to = "done" THEN [result EXCEPT ![s] = "ok"] ELSE result
            ELSE /\ pc' = [pc EXCEPT ![s] = "done"]
                 /\ result' = [result EXCEPT ![s] = "err"]
                 /\ pass' = pass
         /\ UNCHANGED <<startDb, startSync, call, seeded>>

SvcLoopHead(p) == IF p.fetched < p.count THEN "ListMessages" ELSE "SetSyncStateInitial"

\* InitialSync(ctx, count) called directly.
SvcInitialSync(s) ==
    /\ pc[s] = "start"
    /\ \E count \in 0..MaxCount :
         Goes(s, "ListLabels", [pass[s] EXCEPT !.count = count])
    /\ UNCHANGED <<db, result, log, startDb, startSync, call, seeded>>

\* IncrementalSync(ctx): GetSyncState, then the fallback InitialSync(500)
\* or the history call.
SvcIncrementalSync(s) ==
    /\ pc[s] = "start"
    /\ UNCHANGED <<db, startDb, startSync, call, seeded>>
    /\ \/ /\ pc' = [pc EXCEPT ![s] = "done"]
          /\ result' = [result EXCEPT ![s] = "err"]
          /\ log' = [log EXCEPT ![s] =
                       Append(@, StoreCall("GetSyncState", pass[s].accountID, 1, FALSE))]
          /\ pass' = pass
       \/ LET state == GetSyncState(db, pass[s].accountID)
          IN /\ log' = [log EXCEPT ![s] = Append(@, StoreCall("GetSyncState", state, 0, TRUE))]
             /\ result' = result
             /\ IF state.historyID = 0
                THEN Goes(s, "ListLabels", [pass[s] EXCEPT !.count = DefaultCount])
                ELSE Goes(s, "History", [pass[s] EXCEPT !.since = state.historyID])

\* Messages of the provider of service s.
SvcEmails(s) == UNION {ProviderEmails(id) : id \in pass[s].ids}
SvcEvents(s) == [type : HistoryEventTypes, messageID : pass[s].ids]

\* s.provider.ListLabels(ctx)
SvcListLabels(s) ==
    /\ pc[s] = "ListLabels"
    /\ \/ SvcFails(s)
       \/ /\ \E labels \in ProviderLabels :
               Goes(s, IF labels = <<>> THEN SvcLoopHead(pass[s]) ELSE "UpsertLabel",
                    [pass[s] EXCEPT !.labels = labels, !.i = 1])
          /\ UNCHANGED <<db, result, log, startDb, startSync, call, seeded>>

\* labels[i].AccountID = s.accountID; s.store.UpsertLabel(ctx, &labels[i])
SvcUpsertLabel(s) ==
    /\ pc[s] = "UpsertLabel"
    /\ LET p == pass[s]
       IN SvcCalls(s, "UpsertLabel", p.labels[p.i],
                   IF p.i < Len(p.labels) THEN "UpsertLabel" ELSE SvcLoopHead(p),
                   [p EXCEPT !.i = @ + 1])

\* s.provider.ListMessages(ctx, ListOptions{PageToken, MaxResults: limit})
SvcListMessages(s) ==
    /\ pc[s] = "ListMessages"
    /\ \/ SvcFails(s)
       \/ /\ \E msgs \in SeqsUpTo(SvcEmails(s), 1) :
             \E nextToken \in {"", "next"} :
               /\ nextToken = "next" => pass[s].pages + 1 < MaxPages
               /\ Goes(s, IF msgs = <<>> THEN "SetSyncStateInitial" ELSE "UpsertEmail",
                       [pass[s] EXCEPT !.msgs = msgs, !.nextToken = nextToken,
                                       !.i = 1, !.pages = @ + 1])
          /\ UNCHANGED <<db, result, log, startDb, startSync, call, seeded>>

\* The end of one iteration of the paging loop.
SvcAfterPage(p) ==
    LET q == [p EXCEPT !.fetched = @ + Len(p.msgs), !.msgs = <<>>,
                       !.nextToken = "", !.i = 0]
    IN IF p.nextToken = ""
       THEN [pc |-> "SetSyncStateInitial", pass |-> q]
       ELSE [pc |-> SvcLoopHead(q), pass |-> [q EXCEPT !.pageToken = p.nextToken]]

\* s.store.UpsertEmail(ctx, &msgs[i], s.accountID) in the paging loop
SvcUpsertPageEmail(s) ==
    /\ pc[s] = "UpsertEmail"
    /\ LET p == pass[s]
       IN IF p.i < Len(p.msgs)
          THEN SvcCalls(s, "UpsertEmail", p.msgs[p.i], "UpsertEmail",
                        [p EXCEPT !.i = @ + 1])
          ELSE SvcCalls(s, "UpsertEmail", p.msgs[p.i], SvcAfterPage(p).pc,
                        SvcAfterPage(p).pass)

\* The last statement of InitialSync.
SvcSetSyncStateInitial(s) ==
    /\ pc[s] = "SetSyncStateInitial"
    /\ \E now \in Times :
         SvcCalls(s, "SetSyncState",
                  [accountID |-> pass[s].accountID, historyID |-> InitialHistoryID,
                   lastSync |-> now], "done", pass[s])

\* s.provider.History(ctx, state.HistoryID)
SvcHistory(s) ==
    /\ pc[s] = "History"
    /\ \/ SvcFails(s)
       \/ /\ \E events \in SeqsUpTo(SvcEvents(s), MaxSvcEvents) :
             \E newHistoryID \in 0..MaxCursor :
               Goes(s, IF events = <<>> THEN "SetSyncStateIncremental" ELSE "Event",
                    [pass[s] EXCEPT !.events = events,
                                    !.newHistoryID = newHistoryID, !.i = 1])
          /\ UNCHANGED <<db, result, log, startDb, startSync, call, seeded>>

SvcEvent(s) == pass[s].events[pass[s].i]

\* s.provider.GetMessage(ctx, event.MessageID)
SvcGetMessage(s) ==
    /\ pc[s] = "Event"
    /\ NeedsMessage(SvcEvent(s))
    /\ \/ SvcFails(s)
       \/ /\ \E msg \in ProviderEmails(SvcEvent(s).messageID) :
               Goes(s, "EventWrite", [pass[s] EXCEPT !.msg = msg])
          /\ UNCHANGED <<db, result, log, startDb, startSync, call, seeded>>

\* The Store write of the event the loop stands at, then the next event or
\* SetSyncState.
SvcEventWrite(s) ==
    /\ \/ pc[s] = "EventWrite"
       \/ pc[s] = "Event" /\ ~NeedsMessage(SvcEvent(s))
    /\ LET p  == pass[s]
           e  == SvcEvent(s)
           to == IF p.i < Len(p.events) THEN "Event" ELSE "SetSyncStateIncremental"
           q  == [p EXCEPT !.i = IF p.i < Len(p.events) THEN @ + 1 ELSE @,
                           !.msg = NoEmail]
       IN CASE e.type = "HistoryMessageAdded" ->
                 SvcCalls(s, "UpsertEmail", p.msg, to, q)
            [] e.type = "HistoryMessageDeleted" ->
                 SvcCalls(s, "DeleteEmail", e.messageID, to, q)
            [] OTHER ->
                 SvcCalls(s, "SetEmailLabels",
                          [id |-> p.msg.id, labels |-> p.msg.labels], to, q)

\* The last statement of IncrementalSync.
SvcSetSyncStateIncremental(s) ==
    /\ pc[s] = "SetSyncStateIncremental"
    /\ \E now \in Times :
         SvcCalls(s, "SetSyncState",
                  [accountID |-> pass[s].accountID,
                   historyID |-> pass[s].newHistoryID, lastSync |-> now],
                  "done", pass[s])

SvcStep(s) ==
    \/ SvcInitialSync(s)
    \/ SvcIncrementalSync(s)
    \/ SvcListLabels(s)
    \/ SvcUpsertLabel(s)
    \/ SvcListMessages(s)
    \/ SvcUpsertPageEmail(s)
    \/ SvcSetSyncStateInitial(s)
    \/ SvcHistory(s)
    \/ SvcGetMessage(s)
    \/ SvcEventWrite(s)
    \/ SvcSetSyncStateIncremental(s)

\* The database a pass starts on: the account with cursor c (none when 0)
\* and the message e stored (none when NoEmail).
Seeded(d, a, c, e) ==
    LET d1 == IF c = 0 THEN d
              ELSE SetSyncState(d, [accountID |-> a, historyID |-> c,
                                    lastSync |-> 1], 0).db
    IN IF e = NoEmail THEN d1 ELSE UpsertEmail(d1, e, a, 0).db

SvcInit(d, accountOf, idsOf) ==
    /\ db = d
    /\ startDb = d
    /\ pc = [s \in Svcs |-> "start"]
    /\ pass = [s \in Svcs |-> SvcPass(accountOf[s], idsOf[s])]
    /\ result = [s \in Svcs |-> "none"]
    /\ log = [s \in Svcs |-> <<>>]
    /\ startSync = EmptyFn
    /\ call = NoCall
    /\ seeded = FALSE

\* Two accounts whose mailboxes hold disjoint message ids, one service each.
InitTwoAccounts ==
    \E c1, c2 \in 0..1 : \E held \in BOOLEAN :
      LET e1 == IF held THEN mapMessage("m1", "t1", "s1", 1, <<"INBOX", "UNREAD">>)
                ELSE NoEmail
          e2 == IF held THEN mapMessage("m2", "t1", "s1", 1, <<"INBOX", "UNREAD">>)
                ELSE NoEmail
      IN SvcInit(Seeded(Seeded([schema EXCEPT !.accounts = {"a1", "a2"}],
                               "a1", c1, e1), "a2", c2, e2),
                 [s \in Svcs |-> IF s = "p1" THEN "a1" ELSE "a2"],
                 [s \in Svcs |-> IF s = "p1" THEN {"m1"} ELSE {"m2"}])

NextTwoAccounts == \E s \in Svcs : SvcStep(s)
SpecTwoAccounts == InitTwoAccounts /\ [][NextTwoAccounts]_vars

\* One account, two services built for it, each running one pass.
InitSameAccount ==
    \E c \in 0..1 :
    \E e \in {NoEmail, mapMessage("m1", "t1", "s1", 1, <<"INBOX", "UNREAD">>)} :
      SvcInit(Seeded([schema EXCEPT !.accounts = {"a1"}], "a1", c, e),
              [s \in Svcs |-> "a1"], [s \in Svcs |-> {"m1"}])

NextSameAccount == \E s \in Svcs : SvcStep(s)
SpecSameAccount == InitSameAccount /\ [][NextSameAccount]_vars

\* C26: when two IncrementalSync passes of one account, both started from a
\* non-zero cursor and both answered by the provider with a cursor no
\* lower than the one they read, have completed without error, the stored
\* cursor is the highest cursor either pass received.
C26_HighestCursorStored ==
    (\A s \in Svcs : /\ pc[s] = "done" /\ result[s] = "ok"
                     /\ pass[s].since # 0
                     /\ pass[s].newHistoryID >= pass[s].since)
    => \A s \in Svcs :
         GetSyncState(db, pass[s].accountID).historyID >= pass[s].newHistoryID

\* What a database holds for one account: its messages, their label
\* assignments and its SyncState.
AccountState(d, a) ==
    LET msgs == {r \in d.emails : r.account_id = a}
    IN [emails |-> msgs,
        email_labels |-> {x \in d.email_labels : x[1] \in {r.id : r \in msgs}},
        sync_state |-> GetSyncState(d, a)]

\* The Store calls a pass made, made again from database d with no other
\* pass running: the database they leave, and whether every call read or
\* returned what it did in the pass.
RECURSIVE Replay(_, _, _, _)
Replay(d, accountID, calls, k) ==
    IF k > Len(calls) THEN [db |-> d, same |-> TRUE]
    ELSE LET c == calls[k]
         IN IF c.op = "GetSyncState"
            THEN LET rest == Replay(d, accountID, calls, k + 1)
                 IN [db |-> rest.db,
                     same |-> rest.same /\ (c.ok => c.arg = GetSyncState(d, accountID))]
            ELSE LET r    == SvcWrite(d, c.op, c.arg, accountID, c.fault)
                     rest == Replay(r.db, accountID, calls, k + 1)
                 IN [db |-> rest.db, same |-> rest.same /\ r.ok = c.ok]

\* The pass of service first, then the pass of service second.
OneAfterTheOther(first, second) ==
    LET r1 == Replay(startDb, pass[first].accountID, log[first], 1)
        r2 == Replay(r1.db, pass[second].accountID, log[second], 1)
    IN [db |-> r2.db, same |-> r1.same /\ r2.same]

\* C24: when one pass per account has run to its end, interleaved in any
\* way, on two accounts with disjoint message ids, each account's messages,
\* label assignments and SyncState are those the two passes leave when run
\* one after the other, in either order, each pass making the same Store
\* calls with the same results.
C24_InterleavingEqualsSequential ==
    (\A s \in Svcs : pc[s] = "done")
    => \A first \in Svcs : \A second \in Svcs \ {first} :
         LET seq == OneAfterTheOther(first, second)
         IN /\ seq.same
            /\ \A a \in db.accounts : AccountState(db, a) = AccountState(seq.db, a)

C24_Witness ==
    /\ \A s \in Svcs : /\ pc[s] = "done" /\ result[s] = "ok"
                       /\ Len(log[s]) >= 3
                       /\ AccountState(db, pass[s].accountID)
                            # AccountState(startDb, pass[s].accountID)
    /\ pass["p1"].accountID # pass["p2"].accountID

(***************************************************************************)
(* Retrying IncrementalSync against one fixed remote mailbox.  The caller  *)
(* calls IncrementalSync again after every pass that returned an error.    *)
(* In this specification log is the remote mailbox, fixed for the whole    *)
(* behaviour: log.events is its history since the stored cursor,           *)
(* log.historyID its current history id and log.msgs its messages as       *)
(* GetMessage returns them.  The provider and the Store have no transient  *)
(* faults here: a call fails only when the mailbox or the schema makes it  *)
(* fail.                                                                   *)
(***************************************************************************)
MaxRetryEvents == 2

\* A mailbox's history: a message id is never reused, so nothing follows
\* the deletion of a message, and its addition comes before all else.
Lifecycle(events) ==
    \A i, j \in 1..Len(events) :
      (i < j /\ events[i].messageID = events[j].messageID)
      => /\ events[i].type # "HistoryMessageDeleted"
         /\ events[j].type # "HistoryMessageAdded"

\* The messages the mailbox no longer holds: those its history deletes.
Gone(events) ==
    {events[i].messageID : i \in {k \in 1..Len(events) :
                                    events[k].type = "HistoryMessageDeleted"}}

RemoteMailboxes ==
    {[events |-> events, historyID |-> MaxCursor, msgs |-> msgs]
     : events \in {e \in SeqsUpTo(HistoryEvents, MaxRetryEvents) : Lifecycle(e)},
       msgs \in {f \in [MsgIds -> AllProviderEmails] : \A id \in MsgIds : f[id].id = id}}

\* The local database: account a1 with the cursor 1 of an earlier pass and
\* any of the messages stored.
InitRetry ==
    /\ \E held \in SUBSET MsgIds :
         LET e(id) == IF id \in held
                      THEN mapMessage(id, "t1", "s1", 1, <<"INBOX", "UNREAD">>)
                      ELSE NoEmail
         IN db = Seeded(Seeded(schema, AccountID, 1, e("m1")), AccountID, 0, e("m2"))
    /\ log \in RemoteMailboxes
    /\ pc = "idle"
    /\ pass = NoPass
    /\ result = "none"
    /\ startDb = schema
    /\ startSync = EmptyFn
    /\ call = NoCall
    /\ seeded = FALSE

\* The pass returns an error.
RetryFails ==
    /\ pc' = "done"
    /\ result' = "err"
    /\ UNCHANGED <<db, pass, log, startDb, startSync, call, seeded>>

\* IncrementalSync(ctx), called the first time and after every error:
\* GetSyncState, then s.provider.History(ctx, state.HistoryID).
RetryIncrementalSync ==
    /\ pc = "idle" \/ (pc = "done" /\ result = "err")
    /\ GetSyncState(db, AccountID).historyID # 0
    /\ pc' = "History"
    /\ result' = "running"
    /\ pass' = [NoPass EXCEPT !.entry = "IncrementalSync",
                              !.since = GetSyncState(db, AccountID).historyID]
    /\ UNCHANGED <<db, log, startDb, startSync, call, seeded>>

\* History answers with the events since the cursor and the mailbox's
\* history id.
RetryHistory ==
    /\ pc = "History"
    /\ LET events == IF pass.since < log.historyID THEN log.events ELSE <<>>
       IN /\ pass' = [pass EXCEPT !.events = events,
                                  !.newHistoryID = log.historyID, !.i = 1]
          /\ pc' = IF events = <<>> THEN "SetSyncStateIncremental" ELSE "Event"
    /\ UNCHANGED <<db, result, log, startDb, startSync, call, seeded>>

\* GetMessage fails for a message the mailbox no longer holds.
RetryGetMessage ==
    /\ pc = "Event"
    /\ NeedsMessage(Event)
    /\ IF Event.messageID \in Gone(log.events)
       THEN RetryFails
       ELSE /\ pass' = [pass EXCEPT !.msg = log.msgs[Event.messageID]]
            /\ pc' = "EventWrite"
            /\ UNCHANGED <<db, result, log, startDb, startSync, call, seeded>>

\* The Store call of the event, then the next event or SetSyncState.
RetryEventWrite ==
    /\ \/ pc = "EventWrite"
       \/ pc = "Event" /\ ~NeedsMessage(Event)
    /\ LET r == EventWrite(db, Event, pass.msg, 0)
       IN IF ~r.ok
          THEN /\ db' = r.db
               /\ pc' = "done"
               /\ result' = "err"
               /\ pass' = pass
          ELSE /\ db' = r.db
               /\ NextEvent
               /\ result' = result
    /\ UNCHANGED <<log, startDb, startSync, call, seeded>>

\* SetSyncState{HistoryID: newHistoryID}, and the pass returns nil.
RetrySetSyncState ==
    /\ pc = "SetSyncStateIncremental"
    /\ LET r == SetSyncState(db, [accountID |-> AccountID,
                                  historyID |-> pass.newHistoryID,
                                  lastSync |-> 1], 0)
       IN /\ db' = r.db
          /\ pc' = "done"
          /\ result' = IF r.ok THEN "ok" ELSE "err"
    /\ UNCHANGED <<pass, log, startDb, startSync, call, seeded>>

NextRetry ==
    \/ RetryIncrementalSync
    \/ RetryHistory
    \/ RetryGetMessage
    \/ RetryEventWrite
    \/ RetrySetSyncState

\* Every call returns and the caller keeps retrying.
SpecRetry == InitRetry /\ [][NextRetry]_vars /\ WF_vars(NextRetry)

\* C30: from a non-zero stored cursor, with the provider answering from one
\* fixed remote mailbox, the retried IncrementalSync passes eventually
\* complete without error with the mailbox's history id stored as cursor.
C30_RetryingCompletes ==
    <>(/\ pc = "done" /\ result = "ok"
       /\ GetSyncState(db, AccountID).historyID = log.historyID)

\* The messages named by a labels-added or labels-removed event of the
\* pass that are stored locally.
LabelEventIds(d, events) ==
    {events[i].messageID :
       i \in {k \in 1..Len(events) :
                events[k].type \in {"HistoryLabelsAdded", "HistoryLabelsRemoved"}}}
    \cap StoredIds(d)

\* C31: after a successful IncrementalSync pass every locally stored message
\* named by a labels-added or labels-removed event has the label set of the
\* message the provider returned at re-fetch, is unread exactly when that
\* set contains UNREAD and starred exactly when it contains STARRED.
C31_LabelEventsAgree ==
    (pc = "done" /\ result = "ok")
    => \A id \in LabelEventIds(db, pass.events) :
         LET msg == log.msgs[id]
             row == RowOf(db, id)
         IN /\ LabelsOf(db, id) = SeqToSet(msg.labels)
            /\ row.is_read = ~containsLabel(msg.labels, "UNREAD")
            /\ row.is_starred = containsLabel(msg.labels, "STARRED")

\* The message ids the provider listed in the pass: every listed message
\* is upserted, or the pass fails.
ListedIds == {log[i].id : i \in {k \in 1..Len(log) : log[k].op = "UpsertEmail"}}

\* C32: after a successful IncrementalSync pass that took the InitialSync
\* path and paged through the whole provider mailbox, the message ids
\* stored locally for the account are exactly the ids the provider holds.
C32_ReplicaConverges ==
    (/\ pc = "done" /\ result = "ok"
     /\ pass.entry = "IncrementalSync" /\ pass.count = DefaultCount)
    => {r.id : r \in {x \in db.emails : x.account_id = AccountID}} = ListedIds

(***************************************************************************)
(* InitialSync against a provider that may answer every ListMessages call  *)
(* with a non-empty next-page token: the paging loop with no bound on the  *)
(* number of pages other than its own condition.  Every call returns.      *)
(***************************************************************************)
ListMessagesAnyToken ==
    /\ pc = "ListMessages"
    /\ \/ Fails("ListMessages", pass.pageToken, db)
       \/ /\ \E msgs \in SeqsUpTo(AllProviderEmails, MaxPageLen) :
             \E nextToken \in {"", "next"} :
               /\ pass' = [pass EXCEPT !.msgs = msgs, !.nextToken = nextToken,
                                       !.i = 1, !.pages = @ + 1,
                                       !.limit = PageLimit(pass),
                                       !.honest = @ /\ Len(msgs) <= PageLimit(pass)]
               /\ pc' = IF msgs = <<>> THEN "SetSyncStateInitial" ELSE "UpsertEmail"
          /\ log' = Append(log, Entry("ListMessages", pass.pageToken, TRUE))
          /\ UNCHANGED <<db, result, startDb, startSync, call, seeded>>

NextPaging ==
    \/ InitialSync
    \/ ListLabels
    \/ UpsertLabelStep
    \/ ListMessagesAnyToken
    \/ UpsertPageEmail
    \/ SetSyncStateInitial
    \/ Return

SpecPaging == Init /\ [][NextPaging]_vars /\ WF_vars(NextPaging)

\* C33: an iteration of the paging loop that is followed by another has
\* increased fetched by at least one, whatever the provider answers, and
\* every InitialSync pass comes to its end.
C33_InitialSyncTerminates ==
    /\ [][(pc = "UpsertEmail" /\ pc' = "ListMessages")
          => pass'.fetched >= pass.fetched + 1]_vars
    /\ (InPass ~> pc = "done")

\* The provider gives a next-page token with every page and the page that
\* reaches count is being stored.
C33_Witness ==
    /\ pc = "UpsertEmail"
    /\ pass.pageToken = "next" /\ pass.nextToken = "next" /\ pass.pages = MaxCount
    /\ pass.fetched + Len(pass.msgs) >= pass.count

\* The store with the messages of the other accounts, their label
\* assignments and their index entries taken out: the same messages and
\* label assignments for account a.
OnlyAccount(d, a) ==
    LET ids == {r.id : r \in {x \in d.emails : x.account_id = a}}
    IN [d EXCEPT !.emails = {r \in @ : r.account_id = a},
                 !.email_labels = {x \in @ : x[1] \in ids},
                 !.emails_fts = {x \in @ : x[1] \in ids}]

\* C34: ListThreads for an account returns the same summaries on the store
\* and on the store without the messages of the other accounts.
C34_ListThreadsOwnAccountOnly ==
    (Returned("ListThreads") /\ call.args.fault = 0)
    => ListThreads(db, call.args.opts)
         = ListThreads(OnlyAccount(db, call.args.opts.accountID), call.args.opts)

\* C35: after a successful SetThreadRead(t, read), for every account that
\* holds a message of thread t (the account whose thread was opened), every
\* message of the thread has the flag read, and the label assignments, the
\* sync state, the messages of other threads and the messages owned by the
\* other accounts are as they were.
C35_SetThreadReadFrame ==
    (Returned("SetThreadRead") /\ call.ok)
    => LET t == call.args.threadID
       IN /\ \A r \in db.emails : r.thread_id = t => r.is_read = call.args.read
          /\ db.email_labels = startDb.email_labels
          /\ db.sync_state = startDb.sync_state
          /\ {r \in db.emails : r.thread_id # t} = {r \in startDb.emails : r.thread_id # t}
          /\ \A a \in {r.account_id : r \in {x \in startDb.emails : x.thread_id = t}} :
               {r \in db.emails : r.account_id # a}
                 = {r \in startDb.emails : r.account_id # a}

(***************************************************************************)
(* The commands of the TUI and of the CLI that write read flags and act    *)
(* on messages.  In this specification call is the TUI model (view mode,   *)
(* active label, the loaded list, the inbox cursor and the message the     *)
(* inbox emitted last), pass the locals of the running command, log the    *)
(* provider calls the command has made, result the tea.Msg (or error) it   *)
(* returned and startDb the database when it started.  A provider call     *)
(* succeeds or fails; the account is AccountID.                            *)
(***************************************************************************)
TuiActions == {"archive", "delete", "star", "unread"}

\* The messages an earlier sync stored: m1 in thread t1; m2, the later
\* one, in t1 or t2.
TuiEmails(id) ==
    {mapMessage(id, thread, "s1", IF id = "m1" THEN 1 ELSE 2, labels)
     : thread \in (IF id = "m1" THEN {"t1"} ELSE Threads),
       labels \in {<<"INBOX", "UNREAD">>, <<"INBOX">>}}

TuiDbs ==
    {Seeded(Seeded(schema, AccountID, 0, e1), AccountID, 0, e2)
     : e1 \in {NoEmail} \cup TuiEmails("m1"), e2 \in {NoEmail} \cup TuiEmails("m2")}

NoCmd == [cmd |-> "none", id |-> "", action |-> "", read |-> FALSE,
          messages |-> <<>>, i |-> 0]
NoAction == [emailID |-> "", action |-> ""]

\* NewModel: thread view, INBOX active, nothing loaded.
NewModel ==
    [viewMode |-> "viewThread", activeLabel |-> "INBOX", threads |-> <<>>,
     emails |-> <<>>, cursor |-> 0, key |-> "", emitted |-> NoAction]

InitTui ==
    /\ db \in TuiDbs
    /\ startDb = schema
    /\ pc = "idle"
    /\ pass = NoCmd
    /\ result = "none"
    /\ log = <<>>
    /\ call = NewModel
    /\ startSync = EmptyFn
    /\ seeded = FALSE

\* inboxModel.clampCursor after SetThreads or SetEmails.
ClampCursor(cursor, count) ==
    IF count = 0 THEN 0 ELSE IF cursor >= count THEN count - 1 ELSE cursor

\* loadMailCmd(labelID) and the handling of threadsLoadedMsg or
\* emailsLoadedMsg: the models the TUI can be in afterwards.
Loaded(m, d, labelID) ==
    LET opts == [accountID |-> AccountID, labelID |-> labelID, limit |-> 0, offset |-> 0]
    IN IF m.viewMode = "viewThread"
       THEN {[m EXCEPT !.threads = out.threads,
                       !.cursor = ClampCursor(@, Len(out.threads))]
             : out \in ListThreads(d, opts)}
       ELSE {[m EXCEPT !.emails = out.emails,
                       !.cursor = ClampCursor(@, Len(out.emails))]
             : out \in ListEmails(d, opts)}

\* model.Init: tea.Batch(loadLabelsCmd, loadMailCmd(domain.LabelInbox)), or
\* a label chosen in the sidebar (labelSelectedMsg).
LoadMail ==
    /\ pc = "idle"
    /\ \E labelID \in {"INBOX", "UNREAD"} :
       \E m \in Loaded([call EXCEPT !.activeLabel = labelID, !.cursor = 0,
                                    !.key = "", !.emitted = NoAction], db, labelID) :
         call' = m
    /\ UNCHANGED <<db, pc, pass, result, log, startDb, startSync, seeded>>

\* keys.Toggle: the other view, cursor 0, and the list loaded again.
ToggleView ==
    /\ pc = "idle"
    /\ LET vm == IF call.viewMode = "viewThread" THEN "viewFlat" ELSE "viewThread"
       IN \E m \in Loaded([call EXCEPT !.viewMode = vm, !.cursor = 0,
                                       !.key = "", !.emitted = NoAction],
                          db, call.activeLabel) :
            call' = m
    /\ UNCHANGED <<db, pc, pass, result, log, startDb, startSync, seeded>>

\* inboxModel.itemCount
itemCount(m) == IF m.viewMode = "viewThread" THEN Len(m.threads) ELSE Len(m.emails)

\* keys.Down in the inbox.
KeyDown ==
    /\ pc = "idle"
    /\ call.cursor < itemCount(call) - 1
    /\ call' = [call EXCEPT !.cursor = @ + 1, !.key = "", !.emitted = NoAction]
    /\ UNCHANGED <<db, pc, pass, result, log, startDb, startSync, seeded>>

\* inboxModel.actionCmd: the message it emits, NoAction for a nil command.
\* The cursor counts from 0.
actionCmd(m, action) ==
    LET emailID ==
          IF m.viewMode = "viewThread"
          THEN IF Len(m.threads) > 0 /\ m.cursor < Len(m.threads)
               THEN LET msgs == m.threads[m.cursor + 1].messages
                    IN IF Len(msgs) > 0 THEN msgs[Len(msgs)].id ELSE ""
               ELSE ""
          ELSE IF Len(m.emails) = 0 \/ m.cursor >= Len(m.emails) THEN ""
               ELSE m.emails[m.cursor + 1].id
    IN IF emailID = "" THEN NoAction ELSE [emailID |-> emailID, action |-> action]

\* keys.Archive, keys.Delete, keys.Star or keys.Unread in the focused inbox.
ActionKey ==
    /\ pc = "idle"
    /\ \E action \in TuiActions :
         call' = [call EXCEPT !.key = action, !.emitted = actionCmd(call, action)]
    /\ UNCHANGED <<db, pc, pass, result, log, startDb, startSync, seeded>>

\* A provider call of the running command, as log records it.
ProviderCall(op, id, arg, ok) == [op |-> op, id |-> id, arg |-> arg, ok |-> ok]

\* The command starts: its locals, the database it found, no provider call.
Starts(cmd, id, action, read) ==
    /\ pass' = [NoCmd EXCEPT !.cmd = cmd, !.id = id, !.action = action, !.read = read]
    /\ startDb' = db
    /\ log' = <<>>
    /\ UNCHANGED <<call, startSync, seeded>>

\* The local write with which a command starts: on success the command
\* goes on to the provider call at `to`, on failure it returns the error.
WritesLocally(r, to) ==
    /\ db' = r.db
    /\ IF r.ok THEN pc' = to /\ result' = "running"
       ELSE pc' = "done" /\ result' = "errLocal"

\* The CLI command mark-read <message-id> [--unread]:
\* db.SetEmailRead(ctx, args[0], read), then provider.MarkRead.
newMarkReadCmd ==
    /\ pc = "idle"
    /\ \E id \in MsgIds : \E read \in BOOLEAN : \E fault \in 0..1 :
         /\ Starts("mark-read", id, "", read)
         /\ WritesLocally(SetEmailRead(db, id, read, fault), "MarkRead")

\* model.markReadCmd(emailID): m.store.SetEmailRead(ctx, emailID, true),
\* then m.provider.MarkRead.
markReadCmd ==
    /\ pc = "idle"
    /\ \E id \in MsgIds : \E fault \in 0..1 :
         /\ Starts("markReadCmd", id, "", TRUE)
         /\ WritesLocally(SetEmailRead(db, id, TRUE, fault), "MarkRead")

\* model.performActionCmd(emailID, "unread"):
\* m.store.SetEmailRead(ctx, emailID, false), then m.provider.MarkRead.
performUnread ==
    /\ pc = "idle"
    /\ \E id \in MsgIds : \E fault \in 0..1 :
         /\ Starts("performActionCmd", id, "unread", FALSE)
         /\ WritesLocally(SetEmailRead(db, id, FALSE, fault), "MarkRead")

\* provider.MarkRead(ctx, id, read) of the three commands above.
ProviderMarkRead ==
    /\ pc = "MarkRead"
    /\ \E ok \in BOOLEAN :
         /\ log' = Append(log, ProviderCall("MarkRead", pass.id, pass.read, ok))
         /\ result' = IF ok THEN "actionDoneMsg" ELSE "errRemote"
    /\ pc' = "done"
    /\ UNCHANGED <<db, pass, startDb, call, startSync, seeded>>

\* model.markThreadReadCmd(threadID): m.store.SetThreadRead(ctx, threadID, true)
markThreadReadCmd ==
    /\ pc = "idle"
    /\ \E threadID \in Threads : \E fault \in 0..1 :
         /\ Starts("markThreadReadCmd", threadID, "", TRUE)
         /\ WritesLocally(SetThreadRead(db, threadID, TRUE, fault), "GetThread")

\* thread, err := m.store.GetThread(ctx, threadID, m.accountID)
MarkThreadGetThread ==
    /\ pc = "GetThread"
    /\ \E out \in GetThread(db, pass.id, AccountID) : \E fault \in 0..1 :
         IF fault = 1 \/ ~out.found
         THEN /\ pc' = "done"
              /\ result' = "errLocal"
              /\ pass' = pass
         ELSE /\ pc' = "MarkReadLoop"
              /\ result' = result
              /\ pass' = [pass EXCEPT !.messages = out.messages, !.i = 1]
    /\ UNCHANGED <<db, log, startDb, call, startSync, seeded>>

\* for _, msg := range thread.Messages { if !msg.IsRead { MarkRead } }
MarkReadLoop ==
    /\ pc = "MarkReadLoop"
    /\ UNCHANGED <<db, startDb, call, startSync, seeded>>
    /\ IF pass.i > Len(pass.messages)
       THEN /\ pc' = "done"
            /\ result' = "actionDoneMsg"
            /\ UNCHANGED <<pass, log>>
       ELSE IF pass.messages[pass.i].isRead
       THEN /\ pass' = [pass EXCEPT !.i = @ + 1]
            /\ UNCHANGED <<pc, result, log>>
       ELSE \E ok \in BOOLEAN :
              /\ log' = Append(log, ProviderCall("MarkRead", pass.messages[pass.i].id,
                                                 TRUE, ok))
              /\ IF ok THEN /\ pass' = [pass EXCEPT !.i = @ + 1]
                            /\ UNCHANGED <<pc, result>>
                 ELSE /\ pc' = "done"
                      /\ result' = "errRemote"
                      /\ pass' = pass

\* The provider call of performActionCmd for archive, delete and star.
ActionCall(emailID, action, ok) ==
    CASE action = "archive" ->
           ProviderCall("ModifyLabels", emailID, [add |-> <<>>, remove |-> <<"INBOX">>], ok)
      [] action = "delete" -> ProviderCall("TrashMessage", emailID, <<>>, ok)
      [] action = "star" ->
           ProviderCall("ModifyLabels", emailID, [add |-> <<"STARRED">>, remove |-> <<>>], ok)

\* model.performActionCmd(emailID, action), action archive, delete or star:
\* the emailActionMsg comes from the inbox or from the reader.
performActionCmd ==
    /\ pc = "idle"
    /\ \E id \in MsgIds : \E action \in TuiActions \ {"unread"} : \E ok \in BOOLEAN :
         /\ pass' = [NoCmd EXCEPT !.cmd = "performActionCmd", !.id = id, !.action = action]
         /\ log' = <<ActionCall(id, action, ok)>>
         /\ result' = IF ok THEN "actionDoneMsg" ELSE "errRemote"
    /\ pc' = "done"
    /\ startDb' = db
    /\ UNCHANGED <<db, call, startSync, seeded>>

\* model.Update, case actionDoneMsg: the current label is loaded again.
ActionDone ==
    /\ pc = "done"
    /\ result = "actionDoneMsg"
    /\ \E m \in Loaded(call, db, call.activeLabel) : call' = m
    /\ pc' = "reloaded"
    /\ UNCHANGED <<db, pass, result, log, startDb, startSync, seeded>>

\* The command is over (case errMsg sets the status bar only; the CLI
\* command returns).
TuiReturn ==
    /\ pc = "reloaded" \/ (pc = "done" /\ result # "actionDoneMsg")
    /\ pc' = "idle"
    /\ pass' = NoCmd
    /\ result' = "none"
    /\ log' = <<>>
    /\ startDb' = schema
    /\ UNCHANGED <<db, call, startSync, seeded>>

NextTui ==
    \/ LoadMail
    \/ ToggleView
    \/ KeyDown
    \/ ActionKey
    \/ newMarkReadCmd
    \/ markReadCmd
    \/ performUnread
    \/ ProviderMarkRead
    \/ markThreadReadCmd
    \/ MarkThreadGetThread
    \/ MarkReadLoop
    \/ performActionCmd
    \/ ActionDone
    \/ TuiReturn

SpecTui == InitTui /\ [][NextTui]_vars

\* The messages of the thread of the running command, of the account.
ThreadOf(d) == {r \in d.emails : r.thread_id = pass.id /\ r.account_id = AccountID}

\* C36: after markThreadReadCmd has completed without error every message
\* of the thread is read in the store, and the provider's MarkRead(id, true)
\* has been called for every message of the thread that was unread when
\* the command started.
C36_ThreadReadOnBothSides ==
    (pc = "done" /\ pass.cmd = "markThreadReadCmd" /\ result = "actionDoneMsg")
    => /\ \A r \in ThreadOf(db) : r.is_read
       /\ \A r \in ThreadOf(startDb) :
            ~r.is_read => \E i \in 1..Len(log) :
                            log[i] = ProviderCall("MarkRead", r.id, TRUE, TRUE)

\* The running command marks one message read or unread: the CLI command
\* mark-read, markReadCmd or the action "unread".
MarksOne ==
    \/ pass.cmd \in {"mark-read", "markReadCmd"}
    \/ pass.cmd = "performActionCmd" /\ pass.action = "unread"

\* C37: a command that marks one message read or unread has written the
\* local flag when it calls the provider; when the local write fails the
\* provider is not called and the store is unchanged; when the provider
\* call fails the command returns the error and the local flag keeps the
\* written value.
C37_LocalWriteThenProvider ==
    MarksOne
    => /\ log # <<>> => \A r \in RowsOf(db, pass.id) : r.is_read = pass.read
       /\ (pc = "done" /\ result = "errLocal") => (log = <<>> /\ db = startDb)
       /\ (pc = "done" /\ log # <<>> /\ ~log[Len(log)].ok)
          => /\ result = "errRemote"
             /\ log = <<ProviderCall("MarkRead", pass.id, pass.read, FALSE)>>
             /\ \A r \in RowsOf(db, pass.id) : r.is_read = pass.read

\* The provider call failed after the local write changed the flag of a
\* stored message.
C37_Witness ==
    /\ MarksOne /\ pc = "done" /\ result = "errRemote"
    /\ \E r \in RowsOf(startDb, pass.id) : r.is_read # pass.read
    /\ \A r \in RowsOf(db, pass.id) : r.is_read = pass.read

\* The ids of the list the TUI shows in flat view.
ShownIds == {call.emails[i].id : i \in 1..Len(call.emails)}

\* C38: after an archive, delete or star action has completed and the list
\* has been loaded again (flat view), an archived message is not listed
\* under INBOX, a deleted message is not listed under the label it was
\* listed under, and a starred message is listed as starred.
C38_ReloadReflectsAction ==
    (/\ pc = "reloaded" /\ pass.cmd = "performActionCmd"
     /\ call.viewMode = "viewFlat"
     /\ <<pass.id, call.activeLabel>> \in startDb.email_labels)
    => /\ (pass.action = "archive" /\ call.activeLabel = "INBOX")
            => pass.id \notin ShownIds
       /\ pass.action = "delete" => pass.id \notin ShownIds
       /\ pass.action = "star"
            => \A i \in 1..Len(call.emails) :
                 call.emails[i].id = pass.id => call.emails[i].isStarred

\* The most recent message of thread t of the account: the id of a row
\* with the latest date.
MostRecentIds(d, t) ==
    LET rows == {r \in d.emails : r.thread_id = t /\ r.account_id = AccountID}
    IN {r.id : r \in {x \in rows : \A y \in rows : ~DateLess(x.date, y.date)}}

\* C39: in thread view, when archive, delete, star or unread is pressed
\* while a thread loaded by ListThreads is highlighted, the inbox emits an
\* emailActionMsg with that action and the id of the most recent message of
\* the thread.
C39_ThreadActionEmitted ==
    (/\ pc = "idle" /\ call.key \in TuiActions
     /\ call.viewMode = "viewThread"
     /\ call.cursor < Len(call.threads))
    => /\ call.emitted.action = call.key
       /\ call.emitted.emailID \in MostRecentIds(db, call.threads[call.cursor + 1].id)

=============================================================================
